---- MODULE Spec2Model ----
(***************************************************************************)
(* A model of the qahlvm tree-walking interpreter (src/src/vm.rs,          *)
(* src/src/ast.rs): the VirtualMachine state, the expression evaluator,    *)
(* the statement executor with its call protocol, the object heap and the  *)
(* reference-count table.                                                  *)
(*                                                                         *)
(* Representation.                                                         *)
(*  - A Rust String is a sequence of bytes (<<120>> is "x"), so that       *)
(*    concatenation and the byte-wise lexicographic order are computed.    *)
(*  - A Value / an Eval node / a Node is a record tagged by kind / tag /   *)
(*    node; each variant has its own payload field name.                   *)
(*  - Option<T> is a sequence of length 0 (None) or 1 (Some).              *)
(*  - A HashMap is a function; a Vec is a sequence.                        *)
(*  - i32 values are TLA+ integers; the inputs are bounded so that no      *)
(*    arithmetic leaves the i32 range.  A usize is its value as a natural  *)
(*    number; addresses in the inputs are non-negative.                    *)
(*  - f32 values are modelled for integral floats only (payload n stands   *)
(*    for n.0); float operations whose result is not integral are outside  *)
(*    the modelled inputs and reported as "Unmodelled".                    *)
(*  - A panic ends the run: panic holds its kind and no action is enabled. *)
(***************************************************************************)
EXTENDS Integers, Sequences, FiniteSets, TLC

VARIABLES
    objects,            \* VirtualMachine.objects : HashMap<usize, Object>
    objects_in_use,     \* VirtualMachine.objects_in_use : Vec<(usize, u32)>
    functions,          \* VirtualMachine.functions : HashMap<String, Callable>
    global_variables,   \* VirtualMachine.global_variables
    locals,             \* VirtualMachine.locals : Vec<HashMap<String, Value>>
    local,              \* VirtualMachine.local : Option<HashMap<String, Value>>
    gc_approach,        \* VirtualMachine.gc_approach
    overflow_checks,    \* build profile: TRUE panics on integer overflow, FALSE wraps
    stack,              \* the interpreter's own activations (run loops in progress)
    assigned,           \* the `assigned` vector of VirtualMachine::run
    collected,          \* the name lists the last step called run_gc with, in order
    warned,             \* the last step wrote the unallocated-objects warning
    node,               \* the statement dispatched last
    panic,              \* "none", or the kind of the panic that ended the run
    expr,               \* the expression handed to eval (evaluator specification)
    out                 \* what eval produced for expr

vars == <<objects, objects_in_use, functions, global_variables, locals, local,
          gc_approach, overflow_checks, stack, assigned, collected, warned, node, panic,
          expr, out>>

----------------------------------------------------------------------------
(* Option, results, maps *)

None == <<>>
Some(x) == <<x>>
is_some(o) == Len(o) = 1
unwrap(o) == o[1]

Ok(v) == [ok |-> TRUE, val |-> v]
Err(e) == [ok |-> FALSE, err |-> e]

EmptyMap == <<>>
insert(m, k, v) == [n \in (DOMAIN m) \cup {k} |-> IF n = k THEN v ELSE m[n]]
remove(m, k) == [n \in (DOMAIN m) \ {k} |-> m[n]]
contains_key(m, k) == k \in DOMAIN m

----------------------------------------------------------------------------
(* Strings used by the inputs *)

Str ==
    [x |-> <<120>>, y |-> <<121>>, p |-> <<112>>, q |-> <<113>>,
     f |-> <<102>>, g |-> <<103>>, h |-> <<104>>, k |-> <<107>>,
     m |-> <<109>>, r |-> <<114>>, v |-> <<118>>, c |-> <<99>>,
     print |-> <<112, 114, 105, 110, 116>>, nofn |-> <<110, 111>>]

VARIADIC_ARG_NAME == <<118, 97, 114, 97, 114, 103, 115>>

----------------------------------------------------------------------------
(* Value (vm.rs) and Eval (ast.rs) variants *)

Value_Int(i) == [kind |-> "int", i |-> i]
Value_Bool(b) == [kind |-> "bool", b |-> b]
Value_Float(f) == [kind |-> "float", f |-> f]
Value_String(s) == [kind |-> "string", s |-> s]
Value_Array(a) == [kind |-> "array", a |-> a]
Value_Object(id) == [kind |-> "object", id |-> id]

Eval_Int(i) == [tag |-> "Int", i |-> i]
Eval_Bool(b) == [tag |-> "Bool", b |-> b]
Eval_Float(f) == [tag |-> "Float", f |-> f]
Eval_String(s) == [tag |-> "String", s |-> s]
Eval_Array(a) == [tag |-> "Array", a |-> a]
Eval_Object(inner) == [tag |-> "Object", inner |-> inner]
Eval_GetMember(target, member) == [tag |-> "GetMember", target |-> target, member |-> member]
Eval_VarRef(name) == [tag |-> "VarRef", name |-> name]
Eval_FnCall(name, args) == [tag |-> "FnCall", name |-> name, args |-> args]
Eval_Bin(tag, lhs, rhs) == [tag |-> tag, lhs |-> lhs, rhs |-> rhs]
Eval_Not(val) == [tag |-> "Not", val |-> val]

ArithTags == {"Add", "Sub", "Mul", "Div", "Mod", "Pow"}
CmpTags == {"Eq", "Ne", "Gt", "Ge", "Lt", "Le"}
BoolTags == {"And", "Or"}
BinTags == ArithTags \cup CmpTags \cup BoolTags

is_an_operator(e) == e.tag \in BinTags \cup {"Not"}

\* `id as usize` of an i32 and `val as i32` of a usize.  Both are defined on
\* the modelled range only: a negative i32 sign-extends to a usize beyond the
\* model's integers, and a usize above i32::MAX is truncated.
MaxI32 == 2147483647
as_usize(i) == CASE i >= 0 -> i
as_i32(u) == CASE u <= MaxI32 -> u

RECURSIVE as_eval(_)
as_eval(v) ==
    CASE v.kind = "int" -> Eval_Int(v.i)
      [] v.kind = "bool" -> Eval_Bool(v.b)
      [] v.kind = "float" -> Eval_Float(v.f)
      [] v.kind = "string" -> Eval_String(v.s)
      [] v.kind = "object" -> Eval_Object(Eval_Int(as_i32(v.id)))
      [] v.kind = "array" -> Eval_Array([k \in DOMAIN v.a |-> as_eval(v.a[k])])

----------------------------------------------------------------------------
(* Operator arms of VirtualMachine::eval, on normalised operands *)

\* Rust's `/` and `%` on i32 truncate toward zero.
trunc_div(l, r) ==
    IF l >= 0 /\ r > 0 THEN l \div r
    ELSE IF l >= 0 THEN 0 - (l \div (0 - r))
    ELSE IF r > 0 THEN 0 - ((0 - l) \div r)
    ELSE (0 - l) \div (0 - r)
trunc_rem(l, r) == l - r * trunc_div(l, r)

RECURSIVE int_pow(_, _)
int_pow(b, n) == IF n = 0 THEN 1 ELSE b * int_pow(b, n - 1)

\* i32::pow(l, r as u32): a negative r becomes an exponent of 2^32 + r, of
\* the parity of r; only bases of magnitude at most 1 stay in range then.
i32_pow(l, r) ==
    IF r >= 0 THEN Ok(Value_Int(int_pow(l, r)))
    ELSE IF l = 0 THEN Ok(Value_Int(0))
    ELSE IF l = 1 THEN Ok(Value_Int(1))
    ELSE IF l = 0 - 1 THEN Ok(Value_Int(IF r % 2 = 0 THEN 1 ELSE 0 - 1))
    ELSE Err("ArithmeticOverflow")

\* byte-wise lexicographic order of two Strings
RECURSIVE str_lt(_, _)
str_lt(a, b) ==
    IF b = <<>> THEN FALSE
    ELSE IF a = <<>> THEN TRUE
    ELSE IF Head(a) # Head(b) THEN Head(a) < Head(b)
    ELSE str_lt(Tail(a), Tail(b))

both(l, r, t) == l.tag = t /\ r.tag = t

\* Variant: an int operand is coerced to float beside a float operand.
match_Add_coerce(l, r) ==
    IF both(l, r, "Int") THEN Ok(Value_Int(l.i + r.i))
    ELSE IF both(l, r, "Float") THEN Ok(Value_Float(l.f + r.f))
    ELSE IF l.tag = "Int" /\ r.tag = "Float" THEN Ok(Value_Float(l.i + r.f))
    ELSE IF l.tag = "Float" /\ r.tag = "Int" THEN Ok(Value_Float(l.f + r.i))
    ELSE IF both(l, r, "String") THEN Ok(Value_String(l.s \o r.s))
    ELSE Err("TypeMismatch")

match_Add(l, r) ==
    IF both(l, r, "Int") THEN Ok(Value_Int(l.i + r.i))
    ELSE IF both(l, r, "Float") THEN Ok(Value_Float(l.f + r.f))
    ELSE IF both(l, r, "String") THEN Ok(Value_String(l.s \o r.s))
    ELSE Err("TypeMismatch")

match_Sub(l, r) ==
    IF both(l, r, "Int") THEN Ok(Value_Int(l.i - r.i))
    ELSE IF both(l, r, "Float") THEN Ok(Value_Float(l.f - r.f))
    ELSE Err("TypeMismatch")

match_Mul(l, r) ==
    IF both(l, r, "Int") THEN Ok(Value_Int(l.i * r.i))
    ELSE IF both(l, r, "Float") THEN Ok(Value_Float(l.f * r.f))
    ELSE Err("TypeMismatch")

match_Div(l, r) ==
    IF both(l, r, "Int")
    THEN IF r.i = 0 THEN Err("DivisionByZero") ELSE Ok(Value_Int(trunc_div(l.i, r.i)))
    ELSE IF both(l, r, "Float")
    THEN IF r.f # 0 /\ trunc_rem(l.f, r.f) = 0
         THEN Ok(Value_Float(trunc_div(l.f, r.f))) ELSE Err("Unmodelled")
    ELSE Err("TypeMismatch")

\* Variant: the remainder takes the sign of the divisor (floored division).
match_Mod_floored(l, r) ==
    IF both(l, r, "Int")
    THEN IF r.i = 0 THEN Err("DivisionByZero")
         ELSE Ok(Value_Int(IF r.i > 0 THEN l.i % r.i ELSE 0 - ((0 - l.i) % (0 - r.i))))
    ELSE IF both(l, r, "Float")
    THEN IF r.f # 0 THEN Ok(Value_Float(trunc_rem(l.f, r.f))) ELSE Err("Unmodelled")
    ELSE Err("TypeMismatch")

match_Mod(l, r) ==
    IF both(l, r, "Int")
    THEN IF r.i = 0 THEN Err("DivisionByZero") ELSE Ok(Value_Int(trunc_rem(l.i, r.i)))
    ELSE IF both(l, r, "Float")
    THEN IF r.f # 0 THEN Ok(Value_Float(trunc_rem(l.f, r.f))) ELSE Err("Unmodelled")
    ELSE Err("TypeMismatch")

match_Pow(l, r) ==
    IF both(l, r, "Int") THEN i32_pow(l.i, r.i)
    ELSE IF both(l, r, "Float")
    THEN IF r.f >= 0 THEN Ok(Value_Float(int_pow(l.f, r.f))) ELSE Err("Unmodelled")
    ELSE Err("TypeMismatch")

match_Eq(l, r) ==
    IF both(l, r, "Int") THEN Ok(Value_Bool(l.i = r.i))
    ELSE IF both(l, r, "Float") THEN Ok(Value_Bool(l.f = r.f))
    ELSE IF both(l, r, "String") THEN Ok(Value_Bool(l.s = r.s))
    ELSE Err("TypeMismatch")

match_Ne(l, r) ==
    IF both(l, r, "Int") THEN Ok(Value_Bool(l.i # r.i))
    ELSE IF both(l, r, "Float") THEN Ok(Value_Bool(l.f # r.f))
    ELSE IF both(l, r, "String") THEN Ok(Value_Bool(l.s # r.s))
    ELSE Err("TypeMismatch")

match_Gt(l, r) ==
    IF both(l, r, "Int") THEN Ok(Value_Bool(l.i > r.i))
    ELSE IF both(l, r, "Float") THEN Ok(Value_Bool(l.f > r.f))
    ELSE IF both(l, r, "String") THEN Ok(Value_Bool(str_lt(r.s, l.s)))
    ELSE Err("TypeMismatch")

match_Lt(l, r) ==
    IF both(l, r, "Int") THEN Ok(Value_Bool(l.i < r.i))
    ELSE IF both(l, r, "Float") THEN Ok(Value_Bool(l.f < r.f))
    ELSE IF both(l, r, "String") THEN Ok(Value_Bool(str_lt(l.s, r.s)))
    ELSE Err("TypeMismatch")

match_Ge(l, r) ==
    IF both(l, r, "Int") THEN Ok(Value_Bool(l.i >= r.i))
    ELSE IF both(l, r, "Float") THEN Ok(Value_Bool(l.f >= r.f))
    ELSE IF both(l, r, "String") THEN Ok(Value_Bool(~str_lt(l.s, r.s)))
    ELSE Err("TypeMismatch")

match_Le(l, r) ==
    IF both(l, r, "Int") THEN Ok(Value_Bool(l.i <= r.i))
    ELSE IF both(l, r, "Float") THEN Ok(Value_Bool(l.f <= r.f))
    ELSE IF both(l, r, "String") THEN Ok(Value_Bool(~str_lt(r.s, l.s)))
    ELSE Err("TypeMismatch")

match_And(l, r) ==
    IF both(l, r, "Bool") THEN Ok(Value_Bool(l.b /\ r.b)) ELSE Err("TypeMismatch")

match_Or(l, r) ==
    IF both(l, r, "Bool") THEN Ok(Value_Bool(l.b \/ r.b)) ELSE Err("TypeMismatch")

match_Not(v) ==
    IF v.tag = "Bool" THEN Ok(Value_Bool(~v.b)) ELSE Err("TypeMismatch")

match_bin(tag, l, r) ==
    CASE tag = "Add" -> match_Add(l, r)
      [] tag = "Sub" -> match_Sub(l, r)
      [] tag = "Mul" -> match_Mul(l, r)
      [] tag = "Div" -> match_Div(l, r)
      [] tag = "Mod" -> match_Mod(l, r)
      [] tag = "Pow" -> match_Pow(l, r)
      [] tag = "Eq" -> match_Eq(l, r)
      [] tag = "Ne" -> match_Ne(l, r)
      [] tag = "Gt" -> match_Gt(l, r)
      [] tag = "Lt" -> match_Lt(l, r)
      [] tag = "Ge" -> match_Ge(l, r)
      [] tag = "Le" -> match_Le(l, r)
      [] tag = "And" -> match_And(l, r)
      [] tag = "Or" -> match_Or(l, r)

----------------------------------------------------------------------------
(* Sequencing of steps that may panic.  A definition used more than once is *)
(* passed as a parameter, so that it is written (and evaluated) once.       *)

\* r is what an evaluation produced: go on with its value, or stop at its panic
and_then(r, K(_)) == IF r.ok THEN K(r.val) ELSE r

Panic(vm, kind) == [vm EXCEPT !.panic = kind]

\* the same, inside a statement handler: the panic ends the run of vm
Try(r, vm, K(_)) == IF r.ok THEN K(r.val) ELSE Panic(vm, r.err)

\* v is the machine after a step: go on unless the step panicked
Go(v, K(_)) == IF v.panic = "none" THEN K(v) ELSE v

----------------------------------------------------------------------------
(* Eval::deref_var_ref, Eval::deref_object_member (ast.rs) *)

\* Variant: the value is looked up and the node is left as it was.
deref_var_ref_unassigned(e, map) ==
    IF e.tag = "VarRef" /\ ~contains_key(map, e.name) THEN Err("UnknownVariable") ELSE Ok(e)

\* The node after the call, or the panic of an unwrap on a missing name.
deref_var_ref(e, map) ==
    IF e.tag = "VarRef"
    THEN IF contains_key(map, e.name) THEN Ok(as_eval(map[e.name]))
         ELSE Err("UnknownVariable")
    ELSE Ok(e)

\* Variant: a target is an address only; a variable's name is not resolved.
member_target_id_address_only(id_loc, variables) ==
    IF id_loc.tag = "Int" THEN Ok(as_usize(id_loc.i)) ELSE Err("ExpectedIntForObjectId")

\* The address a member-access target names when the target is a literal.
member_target_id(id_loc, variables) ==
    IF id_loc.tag = "Int" THEN Ok(as_usize(id_loc.i))
    ELSE IF id_loc.tag = "String"
    THEN IF ~contains_key(variables, id_loc.s) THEN Err("UnknownVariable")
         ELSE IF variables[id_loc.s].kind = "object" THEN Ok(variables[id_loc.s].id)
         ELSE Err("ExpectedObject")
    ELSE Err("ExpectedIntForObjectId")

\* objects.get(id).unwrap().fields.get(name).unwrap()
field_of(objs, id, name) ==
    IF ~contains_key(objs, id) THEN Err("UnknownObject")
    ELSE IF ~contains_key(objs[id], name) THEN Err("UnknownField")
    ELSE Ok(objs[id][name])

deref_object_member(e, objs, variables) ==
    IF e.tag = "GetMember"
    THEN and_then(member_target_id(e.target, variables), LAMBDA id :
         and_then(field_of(objs, id, e.member), LAMBDA fld :
         Ok(as_eval(fld))))
    ELSE Ok(e)

----------------------------------------------------------------------------
(* VirtualMachine::eval (vm.rs).  vm is the record of the machine's fields. *)

\* Eval::VarRef: the current local frame first, then the globals.
eval_VarRef(vm, name) ==
    IF is_some(vm.local) /\ contains_key(unwrap(vm.local), name)
    THEN Ok(unwrap(vm.local)[name])
    ELSE IF contains_key(vm.global_variables, name)
    THEN Ok(vm.global_variables[name])
    ELSE Err("UnknownVariable")

\* The first failure among results, or the values in order.
RECURSIVE collect(_)
collect(rs) ==
    IF rs = <<>> THEN Ok(<<>>)
    ELSE and_then(Head(rs), LAMBDA first :
         and_then(collect(Tail(rs)), LAMBDA rest :
         Ok(<<first>> \o rest)))

\* The object id a member access or a set-member resolves its evaluated
\* target to (vm.rs 590-599, 844-853).
resolve_target(vm, obj_loc) ==
    IF obj_loc.kind = "int" THEN Ok(as_usize(obj_loc.i))
    ELSE IF obj_loc.kind = "string"
    THEN IF ~contains_key(vm.global_variables, obj_loc.s) THEN Err("UnknownVariable")
         ELSE IF vm.global_variables[obj_loc.s].kind = "object"
         THEN Ok(vm.global_variables[obj_loc.s].id)
         ELSE Err("Unreachable")
    ELSE Err("Unreachable")

RECURSIVE eval(_, _)

\* One operand of an operator after deref_var_ref and deref_object_member:
\* an operator operand is reduced to the literal form of its value.
reduce_operand(vm, e) ==
    IF is_an_operator(e)
    THEN and_then(eval(vm, e), LAMBDA v : Ok(as_eval(v)))
    ELSE Ok(e)

\* The six normalisation lines that open every binary operator arm, in the
\* order of the code: the first panic is the one that ends the run.
normalize_operands(vm, lhs, rhs) ==
    and_then(deref_var_ref(lhs, vm.global_variables), LAMBDA l1 :
    and_then(deref_var_ref(rhs, vm.global_variables), LAMBDA r1 :
    and_then(deref_object_member(l1, vm.objects, vm.global_variables), LAMBDA l2 :
    and_then(deref_object_member(r1, vm.objects, vm.global_variables), LAMBDA r2 :
    and_then(reduce_operand(vm, l2), LAMBDA l3 :
    and_then(reduce_operand(vm, r2), LAMBDA r3 :
    Ok(<<l3, r3>>)))))))

\* The three normalisation lines of the unary arm (Not)
normalize_operand(vm, val) ==
    and_then(deref_var_ref(val, vm.global_variables), LAMBDA v1 :
    and_then(deref_object_member(v1, vm.objects, vm.global_variables), LAMBDA v2 :
    reduce_operand(vm, v2)))

\* Variant: `or` with a true left operand and `and` with a false one do not
\* look at the right operand.
eval_binary_short_circuit(vm, e) ==
    IF e.tag = "Or" /\ e.lhs = Eval_Bool(TRUE) THEN Ok(Value_Bool(TRUE))
    ELSE IF e.tag = "And" /\ e.lhs = Eval_Bool(FALSE) THEN Ok(Value_Bool(FALSE))
    ELSE and_then(normalize_operands(vm, e.lhs, e.rhs), LAMBDA ops :
         match_bin(e.tag, ops[1], ops[2]))

eval_binary(vm, e) ==
    and_then(normalize_operands(vm, e.lhs, e.rhs), LAMBDA ops :
    match_bin(e.tag, ops[1], ops[2]))

eval_Not(vm, e) ==
    and_then(normalize_operand(vm, e.val), LAMBDA op : match_Not(op))

eval_GetMember(vm, e) ==
    and_then(eval(vm, e.target), LAMBDA obj_loc :
    and_then(resolve_target(vm, obj_loc), LAMBDA obj_id :
    field_of(vm.objects, obj_id, e.member)))

\* Eval::FnCall changes the machine: it is taken by the call actions, which
\* run the call protocol; the inputs hold no call nested in an expression.
eval(vm, e) ==
    CASE e.tag = "Int" -> Ok(Value_Int(e.i))
      [] e.tag = "Bool" -> Ok(Value_Bool(e.b))
      [] e.tag = "Float" -> Ok(Value_Float(e.f))
      [] e.tag = "String" -> Ok(Value_String(e.s))
      [] e.tag = "Array" ->
            and_then(collect([k \in DOMAIN e.a |-> eval(vm, e.a[k])]), LAMBDA vs :
            Ok(Value_Array(vs)))
      [] e.tag = "Object" ->
            IF e.inner.tag = "Int" THEN Ok(Value_Object(as_usize(e.inner.i)))
            ELSE Err("Unimplemented")
      [] e.tag = "VarRef" -> eval_VarRef(vm, e.name)
      [] e.tag \in BinTags -> eval_binary(vm, e)
      [] e.tag = "Not" -> eval_Not(vm, e)
      [] e.tag = "GetMember" -> eval_GetMember(vm, e)

----------------------------------------------------------------------------
(* The reference-count table and the collector (vm.rs) *)

\* slice::binary_search_by_key over the (id, count) pairs: <<TRUE, i>> for a
\* match at index i, <<FALSE, i>> for the insertion point i (1-based).
RECURSIVE binary_search_from(_, _, _, _)
binary_search_from(v, id, left, right) ==
    IF left >= right THEN <<FALSE, left>>
    ELSE IF v[left + ((right - left) \div 2)][1] < id
    THEN binary_search_from(v, id, left + ((right - left) \div 2) + 1, right)
    ELSE IF v[left + ((right - left) \div 2)][1] > id
    THEN binary_search_from(v, id, left, left + ((right - left) \div 2))
    ELSE <<TRUE, left + ((right - left) \div 2)>>

binary_search_by_key(v, id) == binary_search_from(v, id, 1, Len(v) + 1)

\* Vec::insert(i, x) and Vec::remove(i), on 1-based indices
vec_splice(v, i, drop, xs) == SubSeq(v, 1, i - 1) \o xs \o SubSeq(v, i + drop, Len(v))

\* `tracker.1 -= 1` on a u32.  At zero the subtraction overflows: a build with
\* overflow checks panics, one without wraps to u32::MAX, which the model
\* holds as its two's-complement reading -1.
u32_dec(vm, i) ==
    IF vm.objects_in_use[i][2] = 0 /\ vm.overflow_checks THEN Panic(vm, "ArithmeticOverflow")
    ELSE [vm EXCEPT !.objects_in_use[i] = <<@[1], @[2] - 1>>]

\* `tracker.1 += 1`: at u32::MAX (held as -1) the addition overflows.
u32_inc(vm, i) ==
    IF vm.objects_in_use[i][2] = 0 - 1 /\ vm.overflow_checks
    THEN Panic(vm, "ArithmeticOverflow")
    ELSE [vm EXCEPT !.objects_in_use[i] = <<@[1], @[2] + 1>>]

dec_at(vm, found) == IF found[1] THEN u32_dec(vm, found[2]) ELSE Panic(vm, "Unreachable")

dec_use_count(vm, val) ==
    IF val.kind = "object"
    THEN dec_at(vm, binary_search_by_key(vm.objects_in_use, val.id))
    ELSE vm

\* Variant: a new entry goes to the end of the table.
inc_at_append(vm, id, found) ==
    IF found[1] THEN u32_inc(vm, found[2])
    ELSE [vm EXCEPT !.objects_in_use = Append(@, <<id, 1>>)]

inc_at(vm, id, found) ==
    IF found[1] THEN u32_inc(vm, found[2])
    ELSE [vm EXCEPT !.objects_in_use = vec_splice(@, found[2], 0, << <<id, 1>> >>)]

inc_use_count(vm, val) ==
    IF val.kind = "object"
    THEN inc_at(vm, val.id, binary_search_by_key(vm.objects_in_use, val.id))
    ELSE vm

\* reference_count on a name bound to Object(id), found: the table search
reference_count_at(vm, variable_name, id, found) ==
    IF ~found[1] THEN Panic(vm, "Unreachable")
    ELSE Go(u32_dec(vm, found[2]), LAMBDA v1 :
         [(IF v1.objects_in_use[found[2]][2] = 0
           THEN [v1 EXCEPT !.objects = remove(@, id),
                           !.objects_in_use = vec_splice(@, found[2], 1, <<>>)]
           ELSE v1) EXCEPT !.global_variables = remove(@, variable_name)])

reference_count(vm, variable_name) ==
    IF ~contains_key(vm.global_variables, variable_name) THEN Panic(vm, "UnknownVariable")
    ELSE IF vm.global_variables[variable_name].kind = "object"
    THEN reference_count_at(vm, variable_name, vm.global_variables[variable_name].id,
             binary_search_by_key(vm.objects_in_use, vm.global_variables[variable_name].id))
    ELSE [vm EXCEPT !.global_variables = remove(@, variable_name)]

RECURSIVE reference_count_each(_, _)
reference_count_each(vm, variable_names) ==
    IF variable_names = <<>> \/ vm.panic # "none" THEN vm
    ELSE reference_count_each(reference_count(vm, Head(variable_names)), Tail(variable_names))

\* the ids whose tracker is zero (to_remove, line 634)
zero_tracked(vm) ==
    {vm.objects_in_use[i][1] : i \in {j \in DOMAIN vm.objects_in_use : vm.objects_in_use[j][2] = 0}}

reference_count_vec(vm, variable_names) ==
    Go(reference_count_each(vm, variable_names), LAMBDA v1 :
    [v1 EXCEPT !.objects = [id \in (DOMAIN @) \ zero_tracked(v1) |-> @[id]]])

\* GcApproach::Custom hands the machine to a caller-supplied function; the
\* model covers the two built-in strategies.  vm.collected records the call.
run_gc(vm, var_names) ==
    CASE vm.gc_approach = "None" -> [vm EXCEPT !.collected = Append(@, var_names)]
      [] vm.gc_approach = "ReferenceCounting" ->
            reference_count_vec([vm EXCEPT !.collected = Append(@, var_names)], var_names)

----------------------------------------------------------------------------
(* Node variants (ast.rs) *)

Node_Assign(name, val) == [node |-> "Assign", name |-> name, val |-> val]
Node_Unassign(name) == [node |-> "Unassign", name |-> name]
Node_SetMember(target, member, val) ==
    [node |-> "SetMember", target |-> target, member |-> member, val |-> val]
Node_CreateObject(ptr, fields) == [node |-> "CreateObject", ptr |-> ptr, fields |-> fields]
Node_DeleteObject(ptr) == [node |-> "DeleteObject", ptr |-> ptr]
Node_Conditional(conditions, else_block) ==
    [node |-> "Conditional", conditions |-> conditions, else_block |-> else_block]
Node_Loop(nodes) == [node |-> "Loop", nodes |-> nodes]
Node_WhileLoop(condition, body) == [node |-> "WhileLoop", condition |-> condition, body |-> body]
Node_For == [node |-> "For"]
Node_Break == [node |-> "Break"]
Node_Continue == [node |-> "Continue"]
Node_FnDef == [node |-> "FnDef"]
Node_Return(val) == [node |-> "Return", val |-> val]
Node_FnCall(name, args) == [node |-> "FnCall", name |-> name, args |-> args]

----------------------------------------------------------------------------
(* Callables (vm.rs) *)

DefinedFunction(name, args, body, has_variadic) ==
    [kind |-> "defined", name |-> name, args |-> args, body |-> body,
     has_variadic |-> has_variadic]
BuiltInFunction(name, n, variadic, func) ==
    [kind |-> "builtin", name |-> name, n |-> n, variadic |-> variadic, func |-> func]

args_len(c) == IF c.kind = "defined" THEN Len(c.args) ELSE c.n
\* (`self.args.len() - 1` on a usize: defined when a parameter is declared)
minimum_args_len(c) ==
    IF c.kind = "defined"
    THEN IF c.has_variadic THEN CASE Len(c.args) >= 1 -> Len(c.args) - 1 ELSE Len(c.args)
    ELSE c.n
is_variadic(c) == IF c.kind = "defined" THEN c.has_variadic ELSE c.variadic

----------------------------------------------------------------------------
(* VirtualMachine::single_run, the arms that call nothing but eval *)

\* Variant: no test against the globals while a local frame is active.
run_Assign_unchecked(vm, var_name, var_val) ==
    IF is_some(vm.local)
    THEN Try(eval(vm, var_val), vm, LAMBDA val :
         [vm EXCEPT !.local = Some(insert(unwrap(@), var_name, val))])
    ELSE Try(eval(vm, var_val), vm, LAMBDA val :
         [vm EXCEPT !.global_variables = insert(@, var_name, val)])

run_Assign(vm, var_name, var_val) ==
    IF is_some(vm.local)
    THEN IF contains_key(vm.global_variables, var_name) THEN Panic(vm, "ShadowCollision")
         ELSE Try(eval(vm, var_val), vm, LAMBDA val :
              [vm EXCEPT !.local = Some(insert(unwrap(@), var_name, val))])
    ELSE Try(eval(vm, var_val), vm, LAMBDA val :
         [vm EXCEPT !.global_variables = insert(@, var_name, val)])

unassign_global(vm, var_name) ==
    IF contains_key(vm.global_variables, var_name)
    THEN dec_use_count([vm EXCEPT !.global_variables = remove(@, var_name)],
                       vm.global_variables[var_name])
    ELSE Panic(vm, "UnknownVariable")

run_Unassign(vm, var_name) ==
    IF is_some(vm.local)
    THEN IF contains_key(unwrap(vm.local), var_name)
         THEN dec_use_count([vm EXCEPT !.local = Some(remove(unwrap(@), var_name))],
                            unwrap(vm.local)[var_name])
         ELSE unassign_global(vm, var_name)
    ELSE unassign_global(vm, var_name)

\* One field initialiser of a create-object (lines 777-779).  built is the
\* pair of the machine and the record built so far, res what eval produced.
create_field(built, field_name, res) ==
    IF ~res.ok THEN <<Panic(built[1], res.err), built[2]>>
    ELSE <<inc_use_count(built[1], res.val), insert(built[2], field_name, res.val)>>

\* the loop over the field initialisers, in order
RECURSIVE create_fields(_, _)
create_fields(built, fields) ==
    IF fields = <<>> \/ built[1].panic # "none" THEN built
    ELSE create_fields(create_field(built, Head(fields)[1], eval(built[1], Head(fields)[2])),
                       Tail(fields))

\* lines 781-782: the record goes into the heap
insert_object(built, ptr) ==
    IF built[1].panic # "none" THEN built[1]
    ELSE [built[1] EXCEPT !.objects = insert(@, ptr, built[2])]

\* Variant: the initialisers run before the residency test.
create_at_fields_first(vm, ptr, fields) ==
    Go(create_fields(<<vm, EmptyMap>>, fields)[1], LAMBDA v1 :
    IF contains_key(v1.objects, ptr) THEN Panic(v1, "DuplicateObject")
    ELSE insert_object(create_fields(<<vm, EmptyMap>>, fields), ptr))

create_at(vm, ptr, fields) ==
    IF contains_key(vm.objects, ptr) THEN Panic(vm, "DuplicateObject")
    ELSE insert_object(create_fields(<<vm, EmptyMap>>, fields), ptr)

run_CreateObject(vm, ptr_expr, fields) ==
    Try(eval(vm, ptr_expr), vm, LAMBDA obj_loc :
    IF obj_loc.kind # "int" THEN Panic(vm, "Unreachable")
    ELSE create_at(vm, as_usize(obj_loc.i), fields))

\* the decrements for the fields of a removed record, in the iteration order
\* the HashMap happens to give (order: the field names in that order)
RECURSIVE dec_fields(_, _, _)
dec_fields(vm, old, order) ==
    IF order = <<>> \/ vm.panic # "none" THEN vm
    ELSE dec_fields(dec_use_count(vm, old[Head(order)]), old, Tail(order))

\* Variant: the record stays in the heap, only its fields are released.
delete_at_keep(vm, ptr, order) ==
    IF ~contains_key(vm.objects, ptr) THEN vm
    ELSE dec_fields(vm, vm.objects[ptr], order)

\* Variant: a delete of an address that is not resident fails.
delete_at_strict(vm, ptr, order) ==
    IF ~contains_key(vm.objects, ptr) THEN Panic(vm, "UnknownObject")
    ELSE dec_fields([vm EXCEPT !.objects = remove(@, ptr)], vm.objects[ptr], order)

delete_at(vm, ptr, order) ==
    IF ~contains_key(vm.objects, ptr) THEN vm
    ELSE dec_fields([vm EXCEPT !.objects = remove(@, ptr)], vm.objects[ptr], order)

run_DeleteObject(vm, ptr_expr, order) ==
    Try(eval(vm, ptr_expr), vm, LAMBDA obj_loc :
    IF obj_loc.kind # "int" THEN Panic(vm, "Unreachable")
    ELSE delete_at(vm, as_usize(obj_loc.i), order))

\* The field names of the record a delete-object removes, if it removes one.
\* target is what eval produced for the address.
deleted_fields(vm, target) ==
    IF target.ok /\ target.val.kind = "int"
    THEN IF contains_key(vm.objects, as_usize(target.val.i))
         THEN DOMAIN vm.objects[as_usize(target.val.i)] ELSE {}
    ELSE {}

\* lines 857-858
set_field(vm, obj_id, member, res) ==
    IF ~contains_key(vm.objects, obj_id) THEN Panic(vm, "UnknownObject")
    ELSE [vm EXCEPT !.objects[obj_id] = insert(@, member, res)]

run_SetMember(vm, target, member, val) ==
    Try(eval(vm, target), vm, LAMBDA obj_loc :
    Try(resolve_target(vm, obj_loc), vm, LAMBDA obj_id :
    Try(eval(vm, val), vm, LAMBDA res :
    Go(inc_use_count(vm, res), LAMBDA v1 :
    set_field(v1, obj_id, member, res)))))

\* Node::Conditional: the body multi_run is called with, if any:
\* Ok(Some(body)), Ok(None), or the panic of a condition.
RECURSIVE select_branch(_, _, _)
select_branch(vm, conditions, else_block) ==
    IF conditions = <<>>
    THEN IF else_block # <<>> THEN Ok(Some(else_block)) ELSE Ok(None)
    ELSE and_then(eval(vm, Head(conditions)[1]), LAMBDA c :
         IF c = Value_Bool(TRUE) THEN Ok(Some(Head(conditions)[2]))
         ELSE select_branch(vm, Tail(conditions), else_block))

----------------------------------------------------------------------------
(* The call protocol: Eval::FnCall / Node::FnCall and Callable::call *)

\* builtin_print: evaluates its arguments in order in the caller's scope and
\* produces no value (the text written is not part of the machine's state).
builtin_print(vm, args) ==
    Try(collect([k \in DOMAIN args |-> eval(vm, args[k])]), vm, LAMBDA vs : vm)

\* BuiltInFunction::call: (self.func)(vm, args)
builtin_call(vm, function, args) ==
    CASE function.func = "builtin_print" -> builtin_print(vm, args)

\* DefinedFunction::call, lines 56-59: the declared parameters, in order, each
\* argument evaluated against the frame built so far.
RECURSIVE bind_args(_, _, _, _)
bind_args(vm, arg_names, args, index) ==
    IF index > Len(arg_names) THEN vm
    ELSE IF index > Len(args) THEN Panic(vm, "IndexOutOfBounds")
    ELSE Try(eval(vm, args[index]), vm, LAMBDA res :
         bind_args([vm EXCEPT !.local = Some(insert(unwrap(@), arg_names[index], res))],
                   arg_names, args, index + 1))

\* DefinedFunction::call, lines 61-68: the arguments past the declared ones
bind_variadic(vm, f, args) ==
    IF ~f.has_variadic THEN vm
    ELSE Try(collect([k \in 1..(Len(args) - Len(f.args)) |-> eval(vm, args[Len(f.args) + k])]),
             vm, LAMBDA variadic :
             [vm EXCEPT !.local = Some(insert(unwrap(@), VARIADIC_ARG_NAME,
                                              Value_Array(variadic)))])

\* Variant: the arguments are evaluated in the caller's scope, before the
\* caller's frame is suspended.
call_enter_caller_scope(vm, f, args) ==
    IF Len(args) < Len(f.args) THEN Panic(vm, "IndexOutOfBounds")
    ELSE Try(collect([k \in DOMAIN args |-> eval(vm, args[k])]), vm, LAMBDA vs :
         [vm EXCEPT !.locals = IF is_some(vm.local) THEN Append(@, unwrap(vm.local)) ELSE @,
                    !.local = Some([n \in {f.args[k] : k \in DOMAIN f.args} |->
                                       vs[CHOOSE k \in DOMAIN f.args : f.args[k] = n]])])

\* DefinedFunction::call up to the body (lines 51-68)
call_enter(vm, f, args) ==
    Go(bind_args([vm EXCEPT !.locals = IF is_some(vm.local) THEN Append(@, unwrap(vm.local))
                                       ELSE @,
                            !.local = Some(EmptyMap)],
                 f.args, args, 1),
       LAMBDA v1 : bind_variadic(v1, f, args))

\* Variant: on exit no frame is current, whatever was suspended.
call_exit_inactive(vm) == [vm EXCEPT !.local = None]

\* DefinedFunction::call, line 84: vm.local = vm.locals.pop()
call_exit(vm) ==
    IF vm.locals = <<>> THEN [vm EXCEPT !.local = None]
    ELSE [vm EXCEPT !.local = Some(vm.locals[Len(vm.locals)]),
                    !.locals = SubSeq(@, 1, Len(@) - 1)]

\* Where the value of a call goes: a call statement discards it, an assign
\* whose right-hand side is the call binds it (in_local: the scope the assign
\* chose before it evaluated the call).
Discard == [to |-> "discard"]
ToAssign(var_name, in_local) == [to |-> "assign", var_name |-> var_name, in_local |-> in_local]

\* Variant: no test of the argument count before the invocation.
invoke_unchecked(vm, function, args) ==
    IF function.kind = "builtin"
    THEN [vm |-> builtin_call(vm, function, args), entered |-> FALSE]
    ELSE [vm |-> call_enter(vm, function, args), entered |-> TRUE]

\* The call handlers from the arity check to the invocation; vm is the
\* machine with the callable already taken out of the registry.  entered: a
\* defined function's body is now to be run.
invoke(vm, function, args) ==
    IF args_len(function) # Len(args) /\ ~is_variadic(function)
    THEN [vm |-> Panic(vm, "ArityMismatch"), entered |-> FALSE]
    ELSE IF function.kind = "builtin"
    THEN [vm |-> builtin_call(vm, function, args), entered |-> FALSE]
    ELSE [vm |-> call_enter(vm, function, args), entered |-> TRUE]

\* Variant: the callable stays in the registry while it runs.
begin_call_keep(vm, name, args) ==
    IF ~contains_key(vm.functions, name)
    THEN [vm |-> Panic(vm, "UnknownFunction"), entered |-> FALSE]
    ELSE invoke(vm, vm.functions[name], args)

\* The call handlers up to and including the invocation: lookup, removal
\* from the registry, then the above.
begin_call(vm, name, args) ==
    IF ~contains_key(vm.functions, name)
    THEN [vm |-> Panic(vm, "UnknownFunction"), entered |-> FALSE]
    ELSE invoke([vm EXCEPT !.functions = remove(@, name)], vm.functions[name], args)

\* the enclosing assign binds the value of the call (lines 736, 740)
bind_result(vm, dest, val) ==
    IF dest.in_local
    THEN IF is_some(vm.local)
         THEN [vm EXCEPT !.local = Some(insert(unwrap(@), dest.var_name, val))]
         ELSE Panic(vm, "UnwrapNone")
    ELSE [vm EXCEPT !.global_variables = insert(@, dest.var_name, val)]

\* Variant: the expression form of a call that produced no value binds
\* nothing and goes on.
complete_call_lenient(vm, function, ret, dest) ==
    IF dest.to = "discard" \/ ~is_some(ret)
    THEN [vm EXCEPT !.functions = insert(@, function.name, function)]
    ELSE bind_result([vm EXCEPT !.functions = insert(@, function.name, function)],
                     dest, unwrap(ret))

\* Variant: the callable is not put back into the registry.
complete_call_dropped(vm, function, ret, dest) ==
    IF dest.to = "discard" THEN vm
    ELSE IF ~is_some(ret) THEN Panic(vm, "NoReturnValue")
    ELSE bind_result(vm, dest, unwrap(ret))

\* The call handlers after Callable::call returned ret: the expression form
\* panics on None; the callable goes back into the registry; the value is
\* bound where the enclosing assign put it.
complete_call(vm, function, ret, dest) ==
    IF dest.to = "discard" THEN [vm EXCEPT !.functions = insert(@, function.name, function)]
    ELSE IF ~is_some(ret) THEN Panic(vm, "NoReturnValue")
    ELSE bind_result([vm EXCEPT !.functions = insert(@, function.name, function)],
                     dest, unwrap(ret))

----------------------------------------------------------------------------
(* The interpreter's activations *)

Frame_call(function, dest) ==
    [kind |-> "call", function |-> function, nodes |-> function.body, pc |-> 1, dest |-> dest]
Frame_multi_run(nodes) ==
    [kind |-> "multi_run", nodes |-> nodes, pc |-> 1, assigned |-> <<>>]
Frame_loop_run(nodes) ==
    [kind |-> "loop_run", nodes |-> nodes, pc |-> 1, assigned |-> <<>>]
Frame_while_loop(condition, body) ==
    [kind |-> "while_loop", condition |-> condition, nodes |-> body, pc |-> 0,
     assigned |-> <<>>]

Top == stack[Len(stack)]
Pop(stk) == SubSeq(stk, 1, Len(stk) - 1)

\* The position after the statement at t.pc: a loop body starts over after
\* its last statement, a while-loop goes back to its test (pc 0).
next_pc(t) ==
    IF t.pc >= Len(t.nodes) /\ t.kind = "loop_run" THEN 1
    ELSE IF t.pc >= Len(t.nodes) /\ t.kind = "while_loop" THEN 0
    ELSE t.pc + 1

\* Variant: an assign reports the name it bound.
single_run_result_named(n) == IF n.node = "Assign" THEN Some(n.name) ELSE None

\* What single_run returns for the statement n: every arm falls through to
\* the `None` that ends the function (line 861).
single_run_result(n) == None

\* `if let Some(var_name) = self.single_run(node) { assigned.push(var_name); }`
push_assigned(names, ret) == IF is_some(ret) THEN Append(names, unwrap(ret)) ELSE names

\* The activation on top is past the statement n: it moves to its next
\* statement, and multi_run, loop_run and while_loop keep the name single_run
\* returned (a function body drops what single_run returns, line 79).
Advance(stk, n) ==
    IF stk = <<>> THEN stk
    ELSE IF stk[Len(stk)].kind = "call"
    THEN [stk EXCEPT ![Len(stk)].pc = next_pc(stk[Len(stk)])]
    ELSE [stk EXCEPT ![Len(stk)].pc = next_pc(stk[Len(stk)]),
                     ![Len(stk)].assigned = push_assigned(@, single_run_result(n))]

\* The machine's fields as one record (&mut self), with what a step has
\* handed to run_gc and written to stderr so far: nothing when it begins.
self ==
    [objects |-> objects, objects_in_use |-> objects_in_use, functions |-> functions,
     global_variables |-> global_variables, locals |-> locals, local |-> local,
     gc_approach |-> gc_approach, overflow_checks |-> overflow_checks, panic |-> panic,
     collected |-> <<>>, warned |-> FALSE]

\* The step's result: the fields of vm, the activations and the statement
\* dispatched.  A panic leaves the activations as they were.  A statement of
\* the top-level sequence hands its name, if it returned one, to run's
\* `assigned` (lines 877-881), which starts empty in every run.
Commit(vm, stk, nd) ==
    /\ objects' = vm.objects
    /\ objects_in_use' = vm.objects_in_use
    /\ functions' = vm.functions
    /\ global_variables' = vm.global_variables
    /\ locals' = vm.locals
    /\ local' = vm.local
    /\ panic' = vm.panic
    /\ stack' = IF vm.panic = "none" THEN stk ELSE stack
    /\ assigned' = IF nd.node = "run_end" THEN <<>>
                   ELSE IF stack = <<>> /\ vm.panic = "none"
                   THEN push_assigned(assigned, single_run_result(nd))
                   ELSE assigned
    /\ collected' = vm.collected
    /\ warned' = vm.warned
    /\ node' = nd
    /\ UNCHANGED <<gc_approach, overflow_checks, expr, out>>

----------------------------------------------------------------------------
(* Inputs: the registered callables and the statements a program is made of *)

\* the largest use-count the explored programs build up
MaxCount == 2

\* h calls itself in statement position, r in expression position; k and m
\* call each other; v collects the arguments past its two parameters and
\* returns them; c calls v and g with arguments that name its own parameter
Fn ==
    [f |-> DefinedFunction(Str.f, <<Str.p>>,
             << Node_Assign(Str.q, Eval_VarRef(Str.p)),
                Node_FnCall(Str.g, <<Eval_Int(2)>>),
                Node_Return(Eval_VarRef(Str.q)) >>, FALSE),
     g |-> DefinedFunction(Str.g, <<Str.p>>,
             << Node_Assign(Str.x, Eval_VarRef(Str.p)),
                Node_Unassign(Str.x) >>, FALSE),
     h |-> DefinedFunction(Str.h, <<>>, << Node_FnCall(Str.h, <<>>) >>, FALSE),
     r |-> DefinedFunction(Str.r, <<>>,
             << Node_Assign(Str.q, Eval_FnCall(Str.r, <<>>)) >>, FALSE),
     k |-> DefinedFunction(Str.k, <<>>,
             << Node_Assign(Str.q, Eval_FnCall(Str.m, <<>>)) >>, FALSE),
     m |-> DefinedFunction(Str.m, <<>>, << Node_FnCall(Str.k, <<>>) >>, FALSE),
     v |-> DefinedFunction(Str.v, <<Str.p, Str.q>>,
             << Node_Return(Eval_VarRef(VARIADIC_ARG_NAME)),
                Node_Unassign(Str.x) >>, TRUE),
     c |-> DefinedFunction(Str.c, <<Str.p>>,
             << Node_FnCall(Str.v, <<Eval_Int(2), Eval_VarRef(Str.p), Eval_VarRef(Str.x)>>),
                Node_FnCall(Str.g, <<Eval_VarRef(Str.p)>>) >>, FALSE),
     print |-> BuiltInFunction(Str.print, 0, TRUE, "builtin_print")]

Callables == {Fn[n] : n \in DOMAIN Fn}
Registry == [n \in {c.name : c \in Callables} |-> CHOOSE c \in Callables : c.name = n]

Obj1 == Eval_Object(Eval_Int(1))

TopNodes ==
    { Node_Assign(Str.x, Eval_Int(1)),
      Node_Assign(Str.x, Obj1),
      Node_Assign(Str.y, Obj1),
      Node_Assign(Str.y, Eval_VarRef(Str.x)),
      Node_Assign(Str.y, Eval_FnCall(Str.f, <<Eval_VarRef(Str.x)>>)),
      Node_Assign(Str.x, Eval_FnCall(Str.g, <<Eval_Int(1)>>)),
      Node_Unassign(Str.x),
      Node_Unassign(Str.y),
      Node_CreateObject(Eval_Int(1), <<>>),
      Node_CreateObject(Eval_Int(1), << <<Str.f, Eval_Int(1)>> >>),
      Node_CreateObject(Eval_Int(2), << <<Str.f, Obj1>>, <<Str.g, Eval_VarRef(Str.x)>> >>),
      Node_DeleteObject(Eval_Int(1)),
      Node_DeleteObject(Eval_Int(2)),
      Node_SetMember(Eval_Int(2), Str.f, Obj1),
      Node_SetMember(Eval_Int(2), Str.f, Eval_Int(1)),
      Node_SetMember(Eval_String(Str.y), Str.f, Eval_Bool(TRUE)),
      Node_FnCall(Str.f, <<Obj1>>),
      Node_FnCall(Str.g, <<Eval_VarRef(Str.y)>>),
      Node_FnCall(Str.g, <<Eval_Int(1)>>),
      Node_FnCall(Str.f, <<Eval_VarRef(Str.q), Eval_Int(1)>>),
      Node_Assign(Str.y, Eval_FnCall(Str.g, <<>>)),
      Node_FnCall(Str.h, <<>>),
      Node_FnCall(Str.r, <<>>),
      Node_FnCall(Str.k, <<>>),
      Node_FnCall(Str.print, <<Eval_VarRef(Str.x), Eval_GetMember(Eval_Int(1), Str.f)>>),
      Node_FnCall(Str.nofn, <<>>),
      Node_FnCall(Str.v, <<>>),
      Node_FnCall(Str.v, <<Eval_Int(1), Eval_VarRef(Str.p), Obj1, Eval_VarRef(Str.q)>>),
      Node_FnCall(Str.c, <<Eval_Int(1)>>),
      Node_Conditional(<< <<Eval_Bin("Eq", Eval_VarRef(Str.x), Eval_Int(1)),
                            <<Node_DeleteObject(Eval_Int(2))>> >> >>,
                       <<Node_Unassign(Str.y)>>),
      Node_Loop(<<Node_DeleteObject(Eval_Int(1)), Node_Break, Node_Unassign(Str.x)>>),
      Node_Loop(<<Node_Unassign(Str.y), Node_Continue, Node_Break>>),
      Node_WhileLoop(Eval_Bin("Eq", Eval_VarRef(Str.x), Eval_Int(1)),
                     <<Node_Assign(Str.x, Obj1), Node_Break, Node_Unassign(Str.x)>>),
      Node_WhileLoop(Eval_GetMember(Eval_Int(1), Str.f),
                     <<Node_SetMember(Eval_Int(1), Str.f, Eval_Int(1)), Node_Continue,
                       Node_DeleteObject(Eval_Int(1))>>),
      Node_Loop(<<Node_Conditional(<< <<Eval_GetMember(Eval_Int(1), Str.f),
                                         <<Node_Break>> >> >>,
                                   <<Node_Continue>>)>>),
      Node_Break, Node_Return(Eval_Int(1)), Node_For, Node_FnDef }

\* every permutation of a finite set, as sequences
RECURSIVE Orders(_)
Orders(S) == IF S = {} THEN {<<>>}
             ELSE UNION {{<<e>> \o o : o \in Orders(S \ {e})} : e \in S}

\* (a count below zero is a wrapped u32, see u32_dec)
WithinBounds(vm) ==
    \A i \in DOMAIN vm.objects_in_use :
        vm.objects_in_use[i][2] \in (0 - MaxCount)..MaxCount

----------------------------------------------------------------------------
(* The state machine *)

Init ==
    /\ objects = EmptyMap
    /\ objects_in_use = <<>>
    /\ functions = Registry
    /\ global_variables = EmptyMap
    /\ locals = <<>>
    /\ local = None
    /\ gc_approach \in {"None", "ReferenceCounting"}
    /\ overflow_checks \in BOOLEAN
    /\ stack = <<>>
    /\ assigned = <<>>
    /\ collected = <<>>
    /\ warned = FALSE
    /\ node = [node |-> "init"]
    /\ panic = "none"
    /\ expr = None
    /\ out = None

\* The statement the innermost activation executes next; at top level, a
\* program may continue with any statement.
Fetchable ==
    IF stack = <<>> THEN TopNodes
    ELSE IF Top.pc \in 1..Len(Top.nodes) THEN {Top.nodes[Top.pc]} ELSE {}

\* Statements a loop or a function body takes itself instead of single_run
Intercepted(n) ==
    /\ stack # <<>>
    /\ \/ Top.kind = "call" /\ n.node = "Return"
       \/ Top.kind \in {"loop_run", "while_loop"} /\ n.node \in {"Break", "Continue"}

Dispatch(n) == panic = "none" /\ n \in Fetchable /\ ~Intercepted(n)

Done(vm, stk, nd) == WithinBounds(vm) /\ Commit(vm, stk, nd)

Assign(n) ==
    /\ Dispatch(n) /\ n.node = "Assign" /\ n.val.tag # "FnCall"
    /\ Done(run_Assign(self, n.name, n.val), Advance(stack, n), n)

Unassign(n) ==
    /\ Dispatch(n) /\ n.node = "Unassign"
    /\ Done(run_Unassign(self, n.name), Advance(stack, n), n)

CreateObject(n) ==
    /\ Dispatch(n) /\ n.node = "CreateObject"
    /\ Done(run_CreateObject(self, n.ptr, n.fields), Advance(stack, n), n)

DeleteObject(n) ==
    /\ Dispatch(n) /\ n.node = "DeleteObject"
    /\ \E order \in Orders(deleted_fields(self, eval(self, n.ptr))) :
           Done(run_DeleteObject(self, n.ptr, order), Advance(stack, n), n)

SetMember(n) ==
    /\ Dispatch(n) /\ n.node = "SetMember"
    /\ Done(run_SetMember(self, n.target, n.member, n.val), Advance(stack, n), n)

\* A call: into the body of a defined function, or through a native.
Called(n, name, dest, b) ==
    IF b.vm.panic # "none" THEN Done(b.vm, stack, n)
    ELSE IF b.entered
    THEN Done(b.vm, Append(Advance(stack, n), Frame_call(functions[name], dest)), n)
    ELSE Done(complete_call(b.vm, functions[name], None, dest), Advance(stack, n), n)

Call(n, name, args, dest) == Called(n, name, dest, begin_call(self, name, args))

FnCall(n) ==
    /\ Dispatch(n) /\ n.node = "FnCall"
    /\ Call(n, n.name, n.args, Discard)

AssignCall(n) ==
    /\ Dispatch(n) /\ n.node = "Assign" /\ n.val.tag = "FnCall"
    /\ IF is_some(local) /\ contains_key(global_variables, n.name)
       THEN Done(Panic(self, "ShadowCollision"), stack, n)
       ELSE Call(n, n.val.name, n.val.args, ToAssign(n.name, is_some(local)))

\* Variant: a return is a statement like any other; the body goes on.
Return_continue(n) ==
    /\ panic = "none" /\ n \in Fetchable
    /\ stack # <<>> /\ Top.kind = "call" /\ n.node = "Return"
    /\ Done(Try(eval(self, n.val), self, LAMBDA val : self), Advance(stack, n), n)

\* DefinedFunction::call, lines 74-77 and 84, then the rest of the call handler
Return(n) ==
    /\ panic = "none" /\ n \in Fetchable
    /\ stack # <<>> /\ Top.kind = "call" /\ n.node = "Return"
    /\ Done(Try(eval(self, n.val), self, LAMBDA val :
                complete_call(call_exit(self), Top.function, Some(val), Top.dest)),
            Pop(stack), n)

\* Variant: the collection strategy also runs when a function body ends.
BodyEnd_collects ==
    /\ panic = "none" /\ stack # <<>> /\ Top.kind = "call" /\ Top.pc > Len(Top.nodes)
    /\ Done(complete_call(call_exit(run_gc(self, <<>>)), Top.function, None, Top.dest),
            Pop(stack), [node |-> "body_end"])

\* DefinedFunction::call when the body is exhausted: ret stays None
BodyEnd ==
    /\ panic = "none" /\ stack # <<>> /\ Top.kind = "call" /\ Top.pc > Len(Top.nodes)
    /\ Done(complete_call(call_exit(self), Top.function, None, Top.dest),
            Pop(stack), [node |-> "body_end"])

\* b: the branch the conditional selected
Branched(n, b) ==
    IF ~b.ok THEN Done(Panic(self, b.err), stack, n)
    ELSE IF is_some(b.val)
    THEN Done(self, Append(Advance(stack, n), Frame_multi_run(unwrap(b.val))), n)
    ELSE Done(self, Advance(stack, n), n)

Conditional(n) ==
    /\ Dispatch(n) /\ n.node = "Conditional"
    /\ Branched(n, select_branch(self, n.conditions, n.else_block))

\* multi_run after its last statement: run_gc(assigned)
MultiRunEnd ==
    /\ panic = "none" /\ stack # <<>> /\ Top.kind = "multi_run" /\ Top.pc > Len(Top.nodes)
    /\ Done(run_gc(self, Top.assigned), Pop(stack), [node |-> "multi_run_end"])

Loop(n) ==
    /\ Dispatch(n) /\ n.node = "Loop"
    /\ Done(self, Append(Advance(stack, n), Frame_loop_run(n.nodes)), n)

WhileLoop(n) ==
    /\ Dispatch(n) /\ n.node = "WhileLoop"
    /\ Done(self, Append(Advance(stack, n), Frame_while_loop(n.condition, n.body)), n)

\* c: what the `while` test evaluated to
Tested(c) ==
    IF ~c.ok THEN Done(Panic(self, c.err), stack, [node |-> "while_test"])
    ELSE IF c.val = Value_Bool(TRUE)
    THEN Done(self, [stack EXCEPT ![Len(stack)].pc = IF Top.nodes = <<>> THEN 0 ELSE 1],
              [node |-> "while_test"])
    ELSE Done(run_gc(self, Top.assigned), Pop(stack), [node |-> "while_test"])

\* the `while` test of while_loop
WhileTest ==
    /\ panic = "none" /\ stack # <<>> /\ Top.kind = "while_loop" /\ Top.pc = 0
    /\ Tested(eval(self, Top.condition))

LoopBreak(n) ==
    /\ panic = "none" /\ n \in Fetchable /\ Intercepted(n) /\ n.node = "Break"
    /\ Done(run_gc(self, Top.assigned), Pop(stack), n)

\* Variant: a continue starts the next pass of a while-loop without its test.
LoopContinue_untested(n) ==
    /\ panic = "none" /\ n \in Fetchable /\ Intercepted(n) /\ n.node = "Continue"
    /\ Done(self, [stack EXCEPT ![Len(stack)].pc = 1], n)

LoopContinue(n) ==
    /\ panic = "none" /\ n \in Fetchable /\ Intercepted(n) /\ n.node = "Continue"
    /\ Done(self, [stack EXCEPT ![Len(stack)].pc = IF Top.kind = "loop_run" THEN 1 ELSE 0], n)

\* single_run on a node it does not implement or must never see
Invalid(n) ==
    /\ Dispatch(n) /\ n.node \in {"For", "FnDef", "Break", "Continue", "Return"}
    /\ Done(Panic(self, IF n.node \in {"For", "FnDef"} THEN "Unimplemented" ELSE "Unreachable"),
            stack, n)

\* VirtualMachine::run from run_gc on (lines 885-892): the collection, then
\* the warning when the reference-count table is not empty (the listing of the
\* heap that follows changes nothing)
end_run(vm, names) ==
    Go(run_gc(vm, names), LAMBDA v1 : [v1 EXCEPT !.warned = v1.objects_in_use # <<>>])

\* VirtualMachine::run after its last statement
RunEnd ==
    /\ panic = "none" /\ stack = <<>>
    /\ Done(end_run(self, assigned), stack, [node |-> "run_end"])

Next ==
    \/ \E n \in Fetchable : Assign(n)
    \/ \E n \in Fetchable : AssignCall(n)
    \/ \E n \in Fetchable : Unassign(n)
    \/ \E n \in Fetchable : CreateObject(n)
    \/ \E n \in Fetchable : DeleteObject(n)
    \/ \E n \in Fetchable : SetMember(n)
    \/ \E n \in Fetchable : FnCall(n)
    \/ \E n \in Fetchable : Return(n)
    \/ \E n \in Fetchable : Conditional(n)
    \/ \E n \in Fetchable : Loop(n)
    \/ \E n \in Fetchable : WhileLoop(n)
    \/ \E n \in Fetchable : LoopBreak(n)
    \/ \E n \in Fetchable : LoopContinue(n)
    \/ \E n \in Fetchable : Invalid(n)
    \/ BodyEnd
    \/ MultiRunEnd
    \/ WhileTest
    \/ RunEnd

Spec == Init /\ [][Next]_vars

----------------------------------------------------------------------------
(* The evaluator on its own: eval applied to an expression in an environment *)
(* a program can have built (run at top level, or inside a call of f).       *)

ObjectsInputs == {EmptyMap, 1 :> (Str.f :> Value_Int(5))}

GlobalsInputs ==
    { EmptyMap,
      Str.x :> Value_Int(1),
      Str.x :> Value_Bool(TRUE),
      (Str.x :> Value_Int(1)) @@ (Str.p :> Value_Int(7)) }

\* no call in progress, or the frame of f(p) after its parameter was bound
LocalInputs == {None, Some(Str.p :> Value_Int(2)), Some(Str.p :> Value_Bool(FALSE))}

LiteralInputs ==
    { Eval_Int(1), Eval_Int(0), Eval_Bool(TRUE), Eval_Bool(FALSE), Eval_Float(1),
      Eval_String(Str.x), Eval_Array(<<Eval_Int(1)>>), Eval_Object(Eval_Int(1)) }

OperandInputs ==
    LiteralInputs \cup
    { Eval_Int(0 - 7), Eval_Int(2), Eval_String(Str.print),
      Eval_VarRef(Str.x), Eval_VarRef(Str.p),
      Eval_GetMember(Eval_Int(1), Str.f), Eval_GetMember(Eval_Int(1), Str.g),
      Eval_Bin("Add", Eval_Int(1), Eval_Bool(TRUE)),
      Eval_Bin("Mul", Eval_Int(2), Eval_Int(3)),
      Eval_Bin("Lt", Eval_Int(1), Eval_Int(2)) }

ExprInputs ==
    OperandInputs
    \cup {Eval_Bin(t, l, r) : t \in BinTags, l \in OperandInputs, r \in OperandInputs}
    \cup {Eval_Not(v) : v \in OperandInputs}

InitEval ==
    /\ objects \in ObjectsInputs
    /\ objects_in_use = <<>>
    /\ global_variables \in GlobalsInputs
    /\ locals = <<>>
    /\ local \in LocalInputs
    /\ functions = IF is_some(local) THEN remove(Registry, Str.f) ELSE Registry
    /\ stack = IF is_some(local) THEN <<Frame_call(Fn.f, Discard)>> ELSE <<>>
    /\ assigned = <<>>
    /\ collected = <<>>
    /\ warned = FALSE
    /\ gc_approach \in {"None"}
    /\ overflow_checks \in {TRUE}
    /\ node = [node |-> "init"]
    /\ panic = "none"
    /\ expr \in {Some(e) : e \in ExprInputs}
    /\ out = None

\* r: what eval produced
Evaluated(r) ==
    /\ out' = Some(r)
    /\ panic' = IF r.ok THEN "none" ELSE r.err
    /\ UNCHANGED <<objects, objects_in_use, functions, global_variables, locals, local,
                   gc_approach, overflow_checks, stack, assigned, collected, warned,
                   node, expr>>

Evaluate ==
    /\ out = None /\ is_some(expr)
    /\ Evaluated(eval(self, unwrap(expr)))

SpecEval == InitEval /\ [][Evaluate]_vars

----------------------------------------------------------------------------
(* The reference-count table on its own: the three operations that write it, *)
(* applied in any order to any of the ids, in a machine that holds an object *)
(* at each id and a global variable bound to each.                           *)

TableIds == {1, 2, 3}

InitTable ==
    /\ objects = [id \in TableIds |-> EmptyMap]
    /\ objects_in_use = <<>>
    /\ functions = Registry
    /\ global_variables = (Str.x :> Value_Object(1)) @@ (Str.y :> Value_Object(2))
                            @@ (Str.p :> Value_Object(3))
    /\ locals = <<>>
    /\ local = None
    /\ gc_approach \in {"ReferenceCounting"}
    /\ overflow_checks \in BOOLEAN
    /\ stack = <<>>
    /\ assigned = <<>>
    /\ collected = <<>>
    /\ warned = FALSE
    /\ node = [node |-> "init"]
    /\ panic = "none"
    /\ expr = None
    /\ out = None

IncUseCount(id) ==
    /\ panic = "none"
    /\ Done(inc_use_count(self, Value_Object(id)), stack, [node |-> "inc_use_count", id |-> id])

DecUseCount(id) ==
    /\ panic = "none"
    /\ Done(dec_use_count(self, Value_Object(id)), stack, [node |-> "dec_use_count", id |-> id])

\* reference_count on a variable that is bound
ReferenceCount(name) ==
    /\ panic = "none" /\ contains_key(global_variables, name)
    /\ Done(reference_count(self, name), stack, [node |-> "reference_count", name |-> name])

NextTable ==
    \/ \E id \in TableIds : IncUseCount(id)
    \/ \E id \in TableIds : DecUseCount(id)
    \/ \E name \in {Str.x, Str.y, Str.p} : ReferenceCount(name)

SpecTable == InitTable /\ [][NextTable]_vars

----------------------------------------------------------------------------
(* Eval::deref_var_ref and Eval::deref_object_member on their own: each is   *)
(* applied in place to the node expr, with the global variables as the map   *)
(* and the heap it is handed, as the operator arms of eval call them.        *)

InitDeref ==
    /\ objects \in
          { EmptyMap,
            1 :> (Str.f :> Value_Int(5)),
            1 :> ((Str.f :> Value_Object(1))
                    @@ (Str.g :> Value_Array(<<Value_Bool(TRUE), Value_String(Str.x)>>))) }
    /\ objects_in_use = <<>>
    /\ functions = Registry
    /\ global_variables \in
          { EmptyMap,
            Str.x :> Value_Int(1),
            (Str.x :> Value_Object(1)) @@ (Str.y :> Value_String(Str.x)),
            (Str.x :> Value_Float(2))
                @@ (Str.y :> Value_Array(<<Value_Int(1), Value_Object(1)>>)) }
    /\ locals = <<>>
    /\ local = None
    /\ gc_approach \in {"None"}
    /\ overflow_checks \in {TRUE}
    /\ stack = <<>>
    /\ assigned = <<>>
    /\ collected = <<>>
    /\ warned = FALSE
    /\ node = [node |-> "init"]
    /\ panic = "none"
    /\ expr \in
          {Some(e) : e \in
              { Eval_VarRef(Str.x), Eval_VarRef(Str.y), Eval_VarRef(Str.q),
                Eval_GetMember(Eval_Int(1), Str.f), Eval_GetMember(Eval_Int(1), Str.g),
                Eval_GetMember(Eval_Int(1), Str.h), Eval_GetMember(Eval_Int(2), Str.f),
                Eval_GetMember(Eval_String(Str.x), Str.f),
                Eval_GetMember(Eval_String(Str.x), Str.g),
                Eval_GetMember(Eval_String(Str.y), Str.f),
                Eval_GetMember(Eval_String(Str.q), Str.f),
                Eval_GetMember(Eval_VarRef(Str.x), Str.f),
                Eval_Int(1), Eval_Bool(TRUE), Eval_Float(1), Eval_String(Str.x),
                Eval_Array(<<Eval_VarRef(Str.x)>>), Eval_Object(Eval_Int(2)),
                Eval_FnCall(Str.f, <<Eval_VarRef(Str.x)>>),
                Eval_Bin("Add", Eval_VarRef(Str.x), Eval_GetMember(Eval_Int(1), Str.f)),
                Eval_Not(Eval_VarRef(Str.x)) }}
    /\ out = None

\* r: the node after the call, or the panic of an unwrap; the call was op.
\* Neither function writes through the maps it borrows.
Dereferenced(r, op) ==
    /\ expr' = IF r.ok THEN Some(r.val) ELSE expr
    /\ panic' = IF r.ok THEN "none" ELSE r.err
    /\ node' = [node |-> op]
    /\ UNCHANGED <<objects, objects_in_use, functions, global_variables, locals, local,
                   gc_approach, overflow_checks, stack, assigned, collected, warned, out>>

DerefVarRef ==
    /\ panic = "none" /\ is_some(expr)
    /\ Dereferenced(deref_var_ref(unwrap(expr), global_variables), "deref_var_ref")

DerefObjectMember ==
    /\ panic = "none" /\ is_some(expr)
    /\ Dereferenced(deref_object_member(unwrap(expr), objects, global_variables),
                    "deref_object_member")

SpecDeref == InitDeref /\ [][DerefVarRef \/ DerefObjectMember]_vars

----------------------------------------------------------------------------
(* VirtualMachine::run on a whole program: the statements of a finite         *)
(* sequence, in order, then the collection and the warning.                   *)

\* the longest program explored
MaxProgramLen == 2

\* the statements the explored programs are made of
ProgramNodes ==
    { Node_Assign(Str.x, Eval_Int(1)),
      Node_Assign(Str.y, Eval_FnCall(Str.f, <<Eval_VarRef(Str.x)>>)),
      Node_CreateObject(Eval_Int(2), << <<Str.f, Obj1>>, <<Str.g, Eval_VarRef(Str.x)>> >>),
      Node_SetMember(Eval_Int(2), Str.f, Eval_Int(1)),
      Node_FnCall(Str.f, <<Obj1>>),
      Node_FnCall(Str.h, <<>>),
      Node_FnCall(Str.k, <<>>),
      Node_FnCall(Str.print, <<Eval_VarRef(Str.x)>>),
      Node_Conditional(<< <<Eval_Bin("Eq", Eval_VarRef(Str.x), Eval_Int(1)),
                            <<Node_DeleteObject(Eval_Int(2))>> >> >>,
                       <<Node_FnCall(Str.f, <<Eval_Int(1)>>)>>),
      Node_Loop(<<Node_Continue>>),
      Node_WhileLoop(Eval_Bin("Eq", Eval_VarRef(Str.x), Eval_Int(1)), <<Node_Break>>),
      Node_FnDef }

InitProgram ==
    /\ objects = EmptyMap
    /\ objects_in_use = <<>>
    /\ functions = Registry
    /\ global_variables = EmptyMap
    /\ locals = <<>>
    /\ local = None
    /\ gc_approach \in {"None", "ReferenceCounting"}
    /\ overflow_checks \in BOOLEAN
    /\ \E len \in 0..MaxProgramLen : \E nodes \in [1..len -> ProgramNodes] :
           stack = <<[kind |-> "run", nodes |-> nodes, pc |-> 1, assigned |-> <<>>]>>
    /\ assigned = <<>>
    /\ collected = <<>>
    /\ warned = FALSE
    /\ node = [node |-> "init"]
    /\ panic = "none"
    /\ expr = None
    /\ out = None

\* run after its last statement (lines 885-892); its activation stays, marked
\* as returned
ProgramEnd ==
    /\ panic = "none" /\ stack # <<>> /\ Top.kind = "run" /\ Top.pc > Len(Top.nodes)
    /\ Done(end_run(self, Top.assigned), <<[Top EXCEPT !.kind = "returned"]>>,
            [node |-> "run_end"])

NextProgram ==
    \/ \E n \in Fetchable : Assign(n)
    \/ \E n \in Fetchable : AssignCall(n)
    \/ \E n \in Fetchable : Unassign(n)
    \/ \E n \in Fetchable : CreateObject(n)
    \/ \E n \in Fetchable : DeleteObject(n)
    \/ \E n \in Fetchable : SetMember(n)
    \/ \E n \in Fetchable : FnCall(n)
    \/ \E n \in Fetchable : Return(n)
    \/ \E n \in Fetchable : Conditional(n)
    \/ \E n \in Fetchable : Loop(n)
    \/ \E n \in Fetchable : WhileLoop(n)
    \/ \E n \in Fetchable : LoopBreak(n)
    \/ \E n \in Fetchable : LoopContinue(n)
    \/ \E n \in Fetchable : Invalid(n)
    \/ BodyEnd
    \/ MultiRunEnd
    \/ WhileTest
    \/ ProgramEnd

\* The interpreter is one sequential computation: while a step is possible,
\* it takes one.
SpecProgram == InitProgram /\ [][NextProgram]_vars /\ WF_vars(NextProgram)

----------------------------------------------------------------------------
(* Properties.  Definitions used to state them. *)

\* the machine after the step
self_next ==
    [objects |-> objects', objects_in_use |-> objects_in_use', functions |-> functions',
     global_variables |-> global_variables', locals |-> locals', local |-> local',
     gc_approach |-> gc_approach', overflow_checks |-> overflow_checks', panic |-> panic']

\* the addresses and field names the inputs use
Ids == {1, 2}
FieldNames == {Str.f, Str.g}

\* the number of names a scope binds to Object(id)
HeldIn(m, id) == Cardinality({k \in DOMAIN m : m[k].kind = "object" /\ m[k].id = id})

RECURSIVE SumSeq(_)
SumSeq(q) == IF q = <<>> THEN 0 ELSE Head(q) + SumSeq(Tail(q))

\* the number of fields of the objects at the addresses S bound to Object(id)
RECURSIVE HeldInObjects(_, _, _)
HeldInObjects(objs, S, id) ==
    IF S = {} THEN 0
    ELSE LET a == CHOOSE a \in S : TRUE IN
         HeldIn(objs[a], id) + HeldInObjects(objs, S \ {a}, id)

\* the live bindings holding id: global variables, the current and the
\* suspended local frames, fields of resident objects
Holders(vm, id) ==
    HeldIn(vm.global_variables, id)
    + (IF is_some(vm.local) THEN HeldIn(unwrap(vm.local), id) ELSE 0)
    + SumSeq([k \in DOMAIN vm.locals |-> HeldIn(vm.locals[k], id)])
    + HeldInObjects(vm.objects, DOMAIN vm.objects, id)

Tracked(vm, id) == \E i \in DOMAIN vm.objects_in_use : vm.objects_in_use[i][1] = id

\* the use-count the table records for id, zero when it has no entry
UseCount(vm, id) ==
    IF Tracked(vm, id)
    THEN vm.objects_in_use[CHOOSE i \in DOMAIN vm.objects_in_use :
                               vm.objects_in_use[i][1] = id][2]
    ELSE 0

\* the step is a collection point of the reference-counting strategy
Collects ==
    /\ gc_approach = "ReferenceCounting" /\ panic' = "none"
    /\ \/ node'.node \in {"run_end", "multi_run_end"}
       \/ node'.node \in {"Break", "while_test"} /\ Len(stack') < Len(stack)

\* C1: under reference counting, an object whose address two bindings held
\* and only one of them was removed is still resident: at a collection point
\* no object that a binding still holds is reclaimed.
C1_HeldStaysResident ==
    [][Collects =>
        \A id \in DOMAIN objects : Holders(self, id) > 0 => id \in DOMAIN objects']_vars

\* C2: between two statements, the use-count the table records for an id
\* (zero without an entry) is the number of live bindings holding the id.
C2_UseCountIsBindings ==
    panic = "none" => \A id \in Ids : UseCount(self, id) = Holders(self, id)

\* the record a create-object builds: each field name with the value of its
\* (last) initialiser in the machine vm
Initialised(vm, fields) ==
    [f \in {fields[k][1] : k \in DOMAIN fields} |->
        eval(vm, fields[CHOOSE k \in DOMAIN fields :
                            /\ fields[k][1] = f
                            /\ \A j \in DOMAIN fields : j > k => fields[j][1] # f][2]).val]

\* C3: a create-object at a resident address fails with DuplicateObject and
\* leaves the heap and the reference-count table as they were; a create-object
\* at a free address that completes inserts exactly the record of its
\* evaluated field values at that address.
C3_CreateObject ==
    [][(node'.node = "CreateObject" /\ node'.ptr.tag = "Int") =>
        IF contains_key(objects, as_usize(node'.ptr.i))
        THEN /\ panic' = "DuplicateObject"
             /\ objects' = objects
             /\ objects_in_use' = objects_in_use
        ELSE panic' = "none" =>
                objects' = insert(objects, as_usize(node'.ptr.i),
                                  Initialised(self, node'.fields))]_vars

\* a create-object has just failed on a resident address whose initialisers
\* hold a reference
C3_Witness ==
    /\ panic = "DuplicateObject"
    /\ node.node = "CreateObject"
    /\ \E k \in DOMAIN node.fields : node.fields[k][2] = Obj1

\* a member access of f on address a
Member(vm, a, f) == eval(vm, Eval_GetMember(Eval_Int(a), f))

\* C4: after create-object(a, {f: v}) a member access of f on a returns v;
\* after delete-object(a), and as long as a is not resident, a member access
\* on a fails with UnknownObject, and only a create-object at a makes a
\* resident again; a member access of a field a resident object lacks fails
\* with UnknownField.
C4_MemberAccess ==
    [][/\ (node'.node = "CreateObject" /\ node'.ptr.tag = "Int" /\ panic' = "none") =>
            \A k \in DOMAIN node'.fields :
                Member(self_next, as_usize(node'.ptr.i), node'.fields[k][1])
                    = Ok(Initialised(self, node'.fields)[node'.fields[k][1]])
       /\ (node'.node = "DeleteObject" /\ node'.ptr.tag = "Int" /\ panic' = "none") =>
            \A f \in FieldNames :
                Member(self_next, as_usize(node'.ptr.i), f) = Err("UnknownObject")
       /\ \A a \in Ids, f \in FieldNames :
            /\ a \notin DOMAIN objects' => Member(self_next, a, f) = Err("UnknownObject")
            /\ (a \notin DOMAIN objects /\ a \in DOMAIN objects') =>
                    node'.node = "CreateObject" /\ node'.ptr = Eval_Int(a)
            /\ (a \in DOMAIN objects' /\ f \notin DOMAIN objects'[a]) =>
                    Member(self_next, a, f) = Err("UnknownField")]_vars

\* object 2 was created (only its creation puts an entry in the table) and a
\* delete-object has removed it: the member access fails
C4_Witness ==
    /\ node = Node_DeleteObject(Eval_Int(2))
    /\ panic = "none"
    /\ objects_in_use # <<>>
    /\ Member(self, 2, Str.f) = Err("UnknownObject")

\* C5: a delete-object on an address that is not resident does not fail and
\* leaves the heap, the reference-count table, every variable scope and the
\* function registry unchanged.
C5_DeleteAbsentIsNoOp ==
    [][(/\ node'.node = "DeleteObject" /\ node'.ptr.tag = "Int"
        /\ ~contains_key(objects, as_usize(node'.ptr.i))) =>
            /\ panic' = "none"
            /\ UNCHANGED <<objects, objects_in_use, global_variables, local, locals,
                           functions>>]_vars

\* a delete-object of address 2 has run with object 2 never created (its
\* creation would have put an entry in the table)
C5_Witness ==
    /\ node = Node_DeleteObject(Eval_Int(2))
    /\ panic = "none"
    /\ objects_in_use = <<>>

\* the names of the callables whose body is being executed
Executing(stk) == {stk[i].function.name : i \in {j \in DOMAIN stk : stk[j].kind = "call"}}

\* the name a statement calls, if it calls one: a call statement, or an assign
\* of a call that gets to evaluate its right-hand side
CalledName(n) ==
    IF n.node = "FnCall" THEN Some(n.name)
    ELSE IF n.node = "Assign"
    THEN IF n.val.tag = "FnCall" /\ ~(is_some(local) /\ contains_key(global_variables, n.name))
         THEN Some(n.val.name) ELSE None
    ELSE None

\* C6: a call, in statement or expression position, of a name whose callable
\* is executing fails with UnknownFunction.
C6_NoReentry ==
    [][(is_some(CalledName(node')) /\ unwrap(CalledName(node')) \in Executing(stack)) =>
            panic' = "UnknownFunction"]_vars

\* an assign inside a function's body has failed on its call of that function
C6_Witness ==
    /\ panic = "UnknownFunction"
    /\ node.node = "Assign"
    /\ node.val.tag = "FnCall"
    /\ node.val.name \in Executing(stack)

\* C7: an assign of n with a local frame active fails with the
\* shadow-collision error when n is a global, changing neither scope, and
\* otherwise binds n in the local frame only; with no local frame active it
\* binds n in the global mapping.
C7_AssignScope ==
    [][node'.node = "Assign" =>
        IF is_some(local)
        THEN IF contains_key(global_variables, node'.name)
             THEN /\ panic' = "ShadowCollision"
                  /\ local' = local
                  /\ global_variables' = global_variables
             ELSE (node'.val.tag # "FnCall" /\ panic' = "none") =>
                    /\ local' = Some(insert(unwrap(local), node'.name,
                                            eval(self, node'.val).val))
                    /\ global_variables' = global_variables
        ELSE (node'.val.tag # "FnCall" /\ panic' = "none") =>
                /\ global_variables' = insert(global_variables, node'.name,
                                              eval(self, node'.val).val)
                /\ local' = local]_vars

\* an assign inside a call has failed on a name that is a global
C7_Witness ==
    /\ panic = "ShadowCollision"
    /\ node.node = "Assign"
    /\ is_some(local)
    /\ contains_key(global_variables, node.name)

\* what a variable reference resolves to: the current local frame when it is
\* active and holds the name, otherwise the globals
Resolve(vm, name) ==
    IF is_some(vm.local) /\ name \in DOMAIN unwrap(vm.local) THEN Ok(unwrap(vm.local)[name])
    ELSE IF name \in DOMAIN vm.global_variables THEN Ok(vm.global_variables[name])
    ELSE Err("UnknownVariable")

\* an operand with a bare variable reference replaced by the literal of the
\* value the reference resolves to
Substituted(vm, e) ==
    IF e.tag = "VarRef"
    THEN IF Resolve(vm, e.name).ok THEN Ok(as_eval(Resolve(vm, e.name).val))
         ELSE Resolve(vm, e.name)
    ELSE Ok(e)

\* C8: a variable reference resolves to the local binding, else the global
\* one, else fails with UnknownVariable, and as a bare operand of an operator
\* it is substituted with that same value: the operator yields what it yields
\* on the literal of the value the standalone reference resolves to.
C8_SameResolution ==
    is_some(out) =>
        /\ unwrap(expr).tag = "VarRef" => unwrap(out) = Resolve(self, unwrap(expr).name)
        /\ (/\ unwrap(expr).tag \in BinTags
            /\ "VarRef" \in {unwrap(expr).lhs.tag, unwrap(expr).rhs.tag}) =>
                unwrap(out) =
                    IF ~Substituted(self, unwrap(expr).lhs).ok
                    THEN Substituted(self, unwrap(expr).lhs)
                    ELSE IF ~Substituted(self, unwrap(expr).rhs).ok
                    THEN Substituted(self, unwrap(expr).rhs)
                    ELSE eval(self, Eval_Bin(unwrap(expr).tag,
                                             Substituted(self, unwrap(expr).lhs).val,
                                             Substituted(self, unwrap(expr).rhs).val))
        /\ (unwrap(expr).tag = "Not" /\ unwrap(expr).val.tag = "VarRef") =>
                unwrap(out) =
                    IF ~Substituted(self, unwrap(expr).val).ok
                    THEN Substituted(self, unwrap(expr).val)
                    ELSE eval(self, Eval_Not(Substituted(self, unwrap(expr).val).val))

\* evaluating the operand on its own, or normalising it as an operand, fails
OperandFails(vm, e) == ~eval(vm, e).ok \/ ~normalize_operand(vm, e).ok

\* C9: and/or never short-circuit: when either operand fails, the whole
\* expression fails, whatever the other operand is.
C9_NoShortCircuit ==
    (is_some(out) /\ unwrap(expr).tag \in BoolTags) =>
        ((OperandFails(self, unwrap(expr).lhs) \/ OperandFails(self, unwrap(expr).rhs))
            => ~unwrap(out).ok)

\* or(true, e) with e failing has been evaluated, and has failed
C9_Witness ==
    /\ is_some(out)
    /\ unwrap(expr).tag = "Or"
    /\ unwrap(expr).lhs = Eval_Bool(TRUE)
    /\ OperandFails(self, unwrap(expr).rhs)
    /\ ~unwrap(out).ok

\* the operand kinds an operator is defined on, both operands of that kind
DefinedKinds(tag) ==
    IF tag = "Add" THEN {"Int", "Float", "String"}
    ELSE IF tag \in ArithTags THEN {"Int", "Float"}
    ELSE IF tag \in CmpTags THEN {"Int", "Float", "String"}
    ELSE {"Bool"}

\* the operands l and r, normalised, are of a combination tag is defined on
DefinedOn(tag, l, r) == l.tag = r.tag /\ l.tag \in DefinedKinds(tag)

\* C10: an operator applied to operands whose kinds are outside its defined
\* set fails with TypeMismatch: no coercion of mixed (int, float), only
\* booleans for and/or/not.
C10_TypeMismatch ==
    is_some(out) =>
        /\ (/\ unwrap(expr).tag \in BinTags
            /\ normalize_operands(self, unwrap(expr).lhs, unwrap(expr).rhs).ok
            /\ ~DefinedOn(unwrap(expr).tag,
                          normalize_operands(self, unwrap(expr).lhs, unwrap(expr).rhs).val[1],
                          normalize_operands(self, unwrap(expr).lhs, unwrap(expr).rhs).val[2]))
                => unwrap(out) = Err("TypeMismatch")
        /\ (/\ unwrap(expr).tag = "Not"
            /\ normalize_operand(self, unwrap(expr).val).ok
            /\ normalize_operand(self, unwrap(expr).val).val.tag # "Bool")
                => unwrap(out) = Err("TypeMismatch")

\* add(Int, Float) has been evaluated, and has failed with TypeMismatch
C10_Witness ==
    /\ expr = Some(Eval_Bin("Add", Eval_Int(1), Eval_Float(1)))
    /\ out = Some(Err("TypeMismatch"))

Magnitude(n) == IF n >= 0 THEN n ELSE 0 - n

\* the integer quotient of l by r, truncated toward zero: the q with
\* l = q * r + m, |m| < |r|, and m zero or of the sign of l
Quotient(l, r) ==
    CHOOSE q \in (0 - Magnitude(l))..Magnitude(l) :
        \E m \in (0 - Magnitude(l))..Magnitude(l) :
            /\ l = q * r + m
            /\ Magnitude(m) < Magnitude(r)
            /\ (m = 0 \/ (m > 0) = (l > 0))

\* a is before b in the lexicographic order of their bytes
LexLess(a, b) ==
    \E k \in 1..Len(b) :
        /\ k - 1 <= Len(a)
        /\ \A j \in 1..(k - 1) : a[j] = b[j]
        /\ (k = Len(a) + 1 \/ a[k] < b[k])

\* the operator, applied to the literals l and r, is one whose result is
\* stated: arithmetic and comparisons on two ints, comparisons and add on two
\* strings (division by a non-zero divisor, power to a non-negative exponent)
Specified(tag, l, r) ==
    \/ /\ both(l, r, "Int")
       /\ tag \in ArithTags \cup CmpTags
       /\ tag \in {"Div", "Mod"} => r.i # 0
       /\ tag = "Pow" => r.i >= 0
    \/ both(l, r, "String") /\ tag \in CmpTags \cup {"Add"}

IntResult(tag, l, r) ==
    CASE tag = "Add" -> Value_Int(l + r)
      [] tag = "Sub" -> Value_Int(l - r)
      [] tag = "Mul" -> Value_Int(l * r)
      [] tag = "Div" -> Value_Int(Quotient(l, r))
      [] tag = "Mod" -> Value_Int(l - r * Quotient(l, r))
      [] tag = "Pow" -> Value_Int(IF r = 0 THEN 1 ELSE l ^ r)
      [] tag = "Eq" -> Value_Bool(l = r)
      [] tag = "Ne" -> Value_Bool(l # r)
      [] tag = "Gt" -> Value_Bool(l > r)
      [] tag = "Ge" -> Value_Bool(l >= r)
      [] tag = "Lt" -> Value_Bool(l < r)
      [] tag = "Le" -> Value_Bool(l <= r)

StringResult(tag, l, r) ==
    CASE tag = "Add" -> Value_String(l \o r)
      [] tag = "Eq" -> Value_Bool(l = r)
      [] tag = "Ne" -> Value_Bool(l # r)
      [] tag = "Gt" -> Value_Bool(LexLess(r, l))
      [] tag = "Ge" -> Value_Bool(l = r \/ LexLess(r, l))
      [] tag = "Lt" -> Value_Bool(LexLess(l, r))
      [] tag = "Le" -> Value_Bool(l = r \/ LexLess(l, r))

Expected(tag, l, r) ==
    IF l.tag = "Int" THEN IntResult(tag, l.i, r.i) ELSE StringResult(tag, l.s, r.s)

\* an operand that is a value already, or an operator to be reduced to one
ValueOperand(e) == e.tag \in {"Int", "Bool", "String"} \/ is_an_operator(e)

\* the value of such an operand
Reduced(vm, e) == IF is_an_operator(e) THEN eval(vm, e) ELSE Ok(e)

ReducedLiteral(vm, e) == IF is_an_operator(e) THEN as_eval(eval(vm, e).val) ELSE e

\* e is an operator whose operands are values or operators that evaluate
Reducible(vm, e) ==
    /\ e.tag \in BinTags
    /\ ValueOperand(e.lhs) /\ ValueOperand(e.rhs)
    /\ Reduced(vm, e.lhs).ok /\ Reduced(vm, e.rhs).ok

CalledArgs(n) == IF n.node = "FnCall" THEN n.args ELSE n.val.args

\* the statement calls a registered callable
CallsRegistered(n) ==
    is_some(CalledName(n)) /\ contains_key(functions, unwrap(CalledName(n)))

\* C12: a call of a registered callable that is not variadic, with a number
\* of arguments other than its declared parameter count, fails with
\* ArityMismatch before the invocation: no local frame is pushed or created,
\* no variable and no heap state changes, and no argument is evaluated (an
\* argument that cannot be evaluated does not change the failure).
C12_ArityMismatch ==
    [][(/\ CallsRegistered(node')
        /\ ~is_variadic(functions[unwrap(CalledName(node'))])
        /\ args_len(functions[unwrap(CalledName(node'))]) # Len(CalledArgs(node'))) =>
            /\ panic' = "ArityMismatch"
            /\ UNCHANGED <<local, locals, global_variables, objects, objects_in_use>>]_vars

\* a call of f, of one parameter, with two arguments, the first of which
\* names no variable, has failed with ArityMismatch
C12_Witness ==
    /\ panic = "ArityMismatch"
    /\ node = Node_FnCall(Str.f, <<Eval_VarRef(Str.q), Eval_Int(1)>>)
    /\ ~contains_key(global_variables, Str.q)

\* the frame a call builds from nothing: the first k parameters bound in
\* order, each to the value of its argument in the frame built before it
RECURSIVE BoundFrame(_, _, _, _)
BoundFrame(vm, names, args, k) ==
    IF k = 0 THEN EmptyMap
    ELSE insert(BoundFrame(vm, names, args, k - 1), names[k],
                eval([vm EXCEPT !.local = Some(BoundFrame(vm, names, args, k - 1))],
                     args[k]).val)

\* the values of the arguments past the declared ones, in order, each in the
\* frame that holds every declared parameter
Excess(vm, names, args) ==
    [k \in 1..(Len(args) - Len(names)) |->
        eval([vm EXCEPT !.local = Some(BoundFrame(vm, names, args, Len(names)))],
             args[Len(names) + k]).val]

\* C13: a call of a variadic function with fewer arguments than its minimum
\* parameter count fails with ArityMismatch; with at least the minimum, a
\* call that is entered has bound each declared parameter in order and the
\* excess arguments, in order, as an array under the variadic name.
C13_VariadicArity ==
    [][(/\ CallsRegistered(node')
        /\ functions[unwrap(CalledName(node'))].kind = "defined"
        /\ is_variadic(functions[unwrap(CalledName(node'))])) =>
            IF Len(CalledArgs(node')) < minimum_args_len(functions[unwrap(CalledName(node'))])
            THEN panic' = "ArityMismatch"
            ELSE panic' = "none" =>
                    local' = Some(insert(
                        BoundFrame(self, functions[unwrap(CalledName(node'))].args,
                                   CalledArgs(node'),
                                   Len(functions[unwrap(CalledName(node'))].args)),
                        VARIADIC_ARG_NAME,
                        Value_Array(Excess(self, functions[unwrap(CalledName(node'))].args,
                                           CalledArgs(node')))))]_vars

\* the number of function bodies in execution
CallDepth(stk) == Cardinality({j \in DOMAIN stk : stk[j].kind = "call"})

\* the step enters the body of a defined function
Entered ==
    /\ panic' = "none"
    /\ Len(stack') = Len(stack) + 1
    /\ stack'[Len(stack')].kind = "call"

\* the step is the return of a call of a defined function (the expression
\* form then fails if the call produced no value)
Returned ==
    /\ node'.node \in {"Return", "body_end"}
    /\ panic' \in {"none", "NoReturnValue"}

\* C14: after a call of a defined function that returns, the local frame and
\* the suspended frames are what they were before the call.  Stated step by
\* step: entering a call suspends the caller's frame, if any, on top of the
\* suspended frames; no step of a body touches the suspended frames or
\* disables the current one; the return makes the frame suspended last
\* current again, or no frame when none was suspended; and the suspended
\* frames are exactly those of the callers of the body in execution, so that
\* a top-level caller is left with no frame and no suspended frame and a
\* calling function with its own frame.
C14_FramesRestored ==
    [][/\ Entered =>
            locals' = IF is_some(local) THEN Append(locals, unwrap(local)) ELSE locals
       /\ Returned =>
            IF locals = <<>> THEN local' = None /\ locals' = <<>>
            ELSE /\ local' = Some(locals[Len(locals)])
                 /\ locals' = SubSeq(locals, 1, Len(locals) - 1)
       /\ (panic' = "none" /\ ~Entered /\ ~Returned) =>
            locals' = locals /\ is_some(local') = is_some(local)
       /\ panic' = "none" =>
            IF CallDepth(stack') = 0 THEN local' = None /\ locals' = <<>>
            ELSE is_some(local') /\ Len(locals') = CallDepth(stack') - 1]_vars

\* the call of g inside the body of f has returned: f's frame, with its
\* bindings p and q, is current again and nothing is suspended
C14_Witness ==
    /\ node.node = "body_end"
    /\ panic = "none"
    /\ CallDepth(stack) = 1
    /\ stack[Len(stack)].function.name = Str.f
    /\ is_some(local)
    /\ DOMAIN unwrap(local) = {Str.p, Str.q}
    /\ locals = <<>>

\* What the k-th argument of a call evaluates to when a variable reference
\* resolves to the parameter of that name bound before it in this call, else
\* to the global of that name, else fails with UnknownVariable (vm is the
\* machine at the call, names the declared parameters).
RECURSIVE ArgValue(_, _, _, _)
ArgValue(vm, names, args, k) ==
    IF args[k].tag # "VarRef" THEN eval(vm, args[k])
    ELSE IF \E j \in 1..Len(names) : j < k /\ names[j] = args[k].name
    THEN ArgValue(vm, names, args,
                  CHOOSE j \in 1..Len(names) : j < k /\ names[j] = args[k].name)
    ELSE IF contains_key(vm.global_variables, args[k].name)
    THEN Ok(vm.global_variables[args[k].name])
    ELSE Err("UnknownVariable")

\* the statement, inside a function's body, calls a registered defined
\* function with an argument for each declared parameter
CallsFromBody(n) ==
    /\ is_some(local)
    /\ CallsRegistered(n)
    /\ functions[unwrap(CalledName(n))].kind = "defined"
    /\ Len(CalledArgs(n)) >= args_len(functions[unwrap(CalledName(n))])
    /\ (is_variadic(functions[unwrap(CalledName(n))])
            \/ Len(CalledArgs(n)) = args_len(functions[unwrap(CalledName(n))]))

\* C15: in a call made from inside a function's body the arguments are
\* evaluated against the callee's fresh frame: a variable reference resolves
\* to a parameter of this call bound earlier or to a global, never to a
\* variable of the caller's frame, and the call fails with UnknownVariable
\* when the name is neither; otherwise each parameter is bound to that value.
C15_ArgsInFreshFrame ==
    [][CallsFromBody(node') =>
        IF \E k \in DOMAIN CalledArgs(node') :
                ~ArgValue(self, functions[unwrap(CalledName(node'))].args,
                          CalledArgs(node'), k).ok
        THEN panic' = "UnknownVariable"
        ELSE /\ panic' = "none"
             /\ \A k \in DOMAIN functions[unwrap(CalledName(node'))].args :
                    unwrap(local')[functions[unwrap(CalledName(node'))].args[k]]
                        = ArgValue(self, functions[unwrap(CalledName(node'))].args,
                                   CalledArgs(node'), k).val]_vars

\* inside the body of c(p), the call g(p) has failed with UnknownVariable:
\* p is bound in the caller's frame (now suspended) and is no global
C15_Witness ==
    /\ panic = "UnknownVariable"
    /\ node = Node_FnCall(Str.g, <<Eval_VarRef(Str.p)>>)
    /\ CallDepth(stack) = 1
    /\ stack[Len(stack)].function.name = Str.c
    /\ locals # <<>>
    /\ contains_key(locals[Len(locals)], Str.p)
    /\ ~contains_key(global_variables, Str.p)

\* a function's body is the innermost activation
InBody == stack # <<>> /\ Top.kind = "call"

\* the value of a return expression in the machine vm (the callee's frame is
\* current): a variable reference reads that frame first
ReturnValue(vm, e) == IF e.tag = "VarRef" THEN Resolve(vm, e.name) ELSE eval(vm, e)

\* the step hands the value val of the call to its destination: a call
\* statement drops it, an assign binds it in the scope of the caller
Produced(dest, val) ==
    IF dest.to = "discard"
    THEN /\ global_variables' = global_variables
         /\ local' = IF locals = <<>> THEN None ELSE Some(locals[Len(locals)])
    ELSE IF dest.in_local
    THEN /\ local' = Some(insert(locals[Len(locals)], dest.var_name, val))
         /\ global_variables' = global_variables
    ELSE /\ global_variables' = insert(global_variables, dest.var_name, val)
         /\ local' = None

\* C16: the statements of a body are executed in order; the first return
\* reached at the top level of the body evaluates its expression against the
\* callee's frame and ends the body at once (the activation is gone, no
\* later statement runs) and the call produces that value; a body that
\* reaches its end without a return produces no value.
C16_ReturnEndsBody ==
    [][InBody =>
        IF Top.pc > Len(Top.nodes)
        THEN /\ node'.node = "body_end"
             /\ IF Top.dest.to = "assign" THEN panic' = "NoReturnValue"
                ELSE panic' = "none" /\ stack' = Pop(stack) /\ Produced(Top.dest, None)
        ELSE /\ node' = Top.nodes[Top.pc]
             /\ IF node'.node = "Return"
                THEN ReturnValue(self, node'.val).ok =>
                        /\ panic' = "none"
                        /\ stack' = Pop(stack)
                        /\ Produced(Top.dest, ReturnValue(self, node'.val).val)
                ELSE panic' = "none" =>
                        /\ Len(stack') >= Len(stack)
                        /\ stack'[Len(stack)] = [Top EXCEPT !.pc = Top.pc + 1]]_vars

\* the return that opens the body of v has ended the call: the unassign of x
\* that follows it was not executed, x is still bound
C16_Witness ==
    /\ node = Node_Return(Eval_VarRef(VARIADIC_ARG_NAME))
    /\ panic = "none"
    /\ stack = <<>>
    /\ contains_key(global_variables, Str.x)

\* the call the statement makes passes the lookup and the arity check
Admitted(n) ==
    /\ CallsRegistered(n)
    /\ (is_variadic(functions[unwrap(CalledName(n))])
            \/ args_len(functions[unwrap(CalledName(n))]) = Len(CalledArgs(n)))

\* C17: a call statement and a call in expression position follow the same
\* protocol: an unregistered name fails with UnknownFunction, a wrong
\* argument count of a callable that is not variadic with ArityMismatch, the
\* callable is out of the registry while its body runs and is put back when
\* the call returns.  When the callee has produced no value the expression
\* form fails with NoReturnValue; the statement form does not fail, and
\* leaves every scope as the return found it whatever value was produced.
C17_CallForms ==
    [][/\ is_some(CalledName(node')) =>
            IF ~CallsRegistered(node') THEN panic' = "UnknownFunction"
            ELSE IF ~Admitted(node') THEN panic' = "ArityMismatch"
            ELSE panic' = "none" =>
                    IF functions[unwrap(CalledName(node'))].kind = "defined"
                    THEN /\ Entered
                         /\ functions' = remove(functions, unwrap(CalledName(node')))
                         /\ stack'[Len(stack')].dest.to =
                                IF node'.node = "FnCall" THEN "discard" ELSE "assign"
                    ELSE functions' = functions /\ node'.node = "FnCall"
       /\ (InBody /\ node'.node \in {"Return", "body_end"}) =>
            IF Top.dest.to = "discard"
            THEN (node'.node = "body_end" \/ ReturnValue(self, node'.val).ok) =>
                    /\ panic' = "none"
                    /\ functions' = insert(functions, Top.function.name, Top.function)
                    /\ Produced(Top.dest, None)
            ELSE IF node'.node = "body_end" THEN panic' = "NoReturnValue"
            ELSE panic' = "none" =>
                    functions' = insert(functions, Top.function.name, Top.function)]_vars

\* the call of g(1) in expression position (an assign at top level) has come
\* to the end of g's body and has failed with NoReturnValue
C17_Witness ==
    /\ panic = "NoReturnValue"
    /\ node.node = "body_end"
    /\ stack # <<>>
    /\ stack[Len(stack)].function.name = Str.g
    /\ stack[Len(stack)].dest = ToAssign(Str.x, FALSE)

\* a loop is the innermost activation
InLoop == stack # <<>> /\ Top.kind \in {"loop_run", "while_loop"}

\* where a loop goes on after a pass: an unconditional loop at its first
\* statement, a while-loop at its test (position 0)
NextPass(t) == IF t.kind = "loop_run" THEN 1 ELSE 0

\* C18: in a loop the statements of a pass are executed in order, each once;
\* a break ends the loop in the step that reaches it, so that no statement
\* after it runs; a continue ends the pass without the statements after it
\* and the loop goes on with its next pass, which a while-loop begins by
\* evaluating its condition again, stopping when it is not true.
C18_LoopControl ==
    [][InLoop =>
        IF Top.pc = 0
        THEN /\ node'.node = "while_test"
             /\ eval(self, Top.condition).ok =>
                    /\ panic' = "none"
                    /\ stack' = IF eval(self, Top.condition).val = Value_Bool(TRUE)
                                THEN [stack EXCEPT ![Len(stack)].pc = 1]
                                ELSE Pop(stack)
        ELSE /\ node' = Top.nodes[Top.pc]
             /\ IF node'.node = "Break"
                THEN panic' = "none" /\ stack' = Pop(stack)
                ELSE IF node'.node = "Continue"
                THEN /\ panic' = "none"
                     /\ stack' = [stack EXCEPT ![Len(stack)].pc = NextPass(Top)]
                     /\ UNCHANGED <<objects, objects_in_use, global_variables, local, locals>>
                ELSE panic' = "none" =>
                        /\ Len(stack') >= Len(stack)
                        /\ stack'[Len(stack)] =
                              [Top EXCEPT !.pc = IF Top.pc < Len(Top.nodes) THEN Top.pc + 1
                                                 ELSE NextPass(Top)]]_vars

\* the while-loop on field f of object 1 is back at its test: its pass set f
\* to 1, the continue skipped the delete of object 1 that follows, and the
\* condition is no longer true
C18_Witness ==
    /\ node = Node_Continue
    /\ panic = "none"
    /\ stack # <<>>
    /\ stack[Len(stack)].kind = "while_loop"
    /\ stack[Len(stack)].pc = 0
    /\ contains_key(objects, 1)
    /\ objects[1][Str.f] = Value_Int(1)

\* C19: the reference-count table is strictly ordered by object id (so that
\* no id occurs twice), whatever increments, decrements and removals were
\* applied to it.
C19_TableOrdered ==
    \A i \in DOMAIN objects_in_use, j \in DOMAIN objects_in_use :
        i < j => objects_in_use[i][1] < objects_in_use[j][1]

\* the increment of id 2 has just put its entry between those of 1 and 3
C19_Witness ==
    /\ node = [node |-> "inc_use_count", id |-> 2]
    /\ Len(objects_in_use) = 3
    /\ objects_in_use[2] = <<2, 1>>

\* C20: an entry of the reference-count table appears with the first
\* increment of its id (in a statement that stores a reference to id in a
\* field) and is gone once the object at that id is deallocated: a step that
\* takes the object at id out of the heap (a delete-object of id, or the
\* collector) leaves no entry for id.
C20_EntryRemoved ==
    [][\A id \in Ids :
        /\ (~Tracked(self, id) /\ Tracked(self_next, id)) =>
                /\ node'.node \in {"CreateObject", "SetMember"}
                /\ UseCount(self_next, id) >= 1
        /\ (/\ panic' = "none"
            /\ contains_key(objects, id)
            /\ ~contains_key(objects', id)) => ~Tracked(self_next, id)]_vars

\* a node that is a literal: it names no variable, member or function and
\* applies no operator (an array, when each of its elements is a literal)
RECURSIVE IsLiteral(_)
IsLiteral(e) ==
    CASE e.tag \in {"Int", "Bool", "Float", "String"} -> TRUE
      [] e.tag = "Object" -> e.inner.tag = "Int"
      [] e.tag = "Array" -> \A k \in DOMAIN e.a : IsLiteral(e.a[k])
      [] OTHER -> FALSE

\* the node e is the literal form of the value v: a literal that evaluates to v
LiteralOf(e, v) == IsLiteral(e) /\ eval(self, e) = Ok(v)

\* C21: deref_var_ref applied to a variable reference whose name is in the
\* map replaces the node with the literal form of the mapped value; applied
\* to a node of any other kind it leaves the node as it was; the map is
\* unchanged in both cases.
C21_DerefVarRef ==
    [][node'.node = "deref_var_ref" =>
        /\ global_variables' = global_variables
        /\ IF unwrap(expr).tag = "VarRef"
           THEN contains_key(global_variables, unwrap(expr).name) =>
                    /\ panic' = "none"
                    /\ LiteralOf(unwrap(expr'), global_variables[unwrap(expr).name])
           ELSE panic' = "none" /\ expr' = expr]_vars

\* the reference to y, bound to an array that holds an object reference, has
\* been replaced by the array literal
C21_Witness ==
    /\ node.node = "deref_var_ref"
    /\ contains_key(global_variables, Str.y)
    /\ global_variables[Str.y] = Value_Array(<<Value_Int(1), Value_Object(1)>>)
    /\ expr = Some(Eval_Array(<<Eval_Int(1), Eval_Object(Eval_Int(1))>>))

\* the address a member access names by its target: an integer address, or a
\* string naming a global variable that holds an object reference
TargetAddress(e) ==
    IF e.target.tag = "Int" THEN Some(e.target.i)
    ELSE IF e.target.tag = "String" /\ contains_key(global_variables, e.target.s)
    THEN IF global_variables[e.target.s].kind = "object"
         THEN Some(global_variables[e.target.s].id) ELSE None
    ELSE None

\* the member access e names a field of a resident object
NamesField(e) ==
    /\ is_some(TargetAddress(e))
    /\ contains_key(objects, unwrap(TargetAddress(e)))
    /\ contains_key(objects[unwrap(TargetAddress(e))], e.member)

\* C22: deref_object_member applied to a member access whose target is the
\* address of a resident object, or a string naming a variable that holds a
\* reference to one, replaces the node with the literal form of the named
\* field's value, which is the value the member access evaluates to on its
\* own; a node of any other kind is left as it was; the heap and the
\* variables are unchanged.
C22_DerefObjectMember ==
    [][node'.node = "deref_object_member" =>
        /\ UNCHANGED <<objects, global_variables>>
        /\ IF unwrap(expr).tag = "GetMember"
           THEN NamesField(unwrap(expr)) =>
                    /\ panic' = "none"
                    /\ LiteralOf(unwrap(expr'),
                                 objects[unwrap(TargetAddress(unwrap(expr)))][unwrap(expr).member])
                    /\ eval(self, unwrap(expr)) = eval(self, unwrap(expr'))
           ELSE panic' = "none" /\ expr' = expr]_vars

\* the access to field f through the variable x, which holds a reference to
\* object 1, has been replaced by the literal of the reference f holds
C22_Witness ==
    /\ node.node = "deref_object_member"
    /\ contains_key(global_variables, Str.x)
    /\ global_variables[Str.x] = Value_Object(1)
    /\ contains_key(objects, 1)
    /\ objects[1][Str.f] = Value_Object(1)
    /\ expr = Some(Eval_Object(Eval_Int(1)))

\* the body of a conditional is the innermost activation, and the
\* conditional is a statement of a loop's body
InLoopBranch ==
    /\ Len(stack) >= 2
    /\ Top.kind = "multi_run"
    /\ stack[Len(stack) - 1].kind \in {"loop_run", "while_loop"}
    /\ Top.pc \in 1..Len(Top.nodes)

\* C23: a break or continue reached in the body of a conditional that is a
\* statement of a loop's body is propagated to that loop without a fatal
\* error: the break ends the loop, the continue starts its next pass.
C23_Propagates ==
    [][(InLoopBranch /\ Top.nodes[Top.pc].node \in {"Break", "Continue"}) =>
        /\ panic' = "none"
        /\ stack' = IF Top.nodes[Top.pc].node = "Break"
                    THEN SubSeq(stack, 1, Len(stack) - 2)
                    ELSE [SubSeq(stack, 1, Len(stack) - 1) EXCEPT
                             ![Len(stack) - 1].pc = NextPass(stack[Len(stack) - 1])]]_vars

\* the step completes the top-level sequence, the body of a conditional
\* branch, or a loop (its activation is gone: a break, or a test not true)
EndsSequence ==
    \/ node'.node = "run_end"
    \/ /\ stack # <<>>
       /\ Top.kind \in {"multi_run", "loop_run", "while_loop"}
       /\ stack' = Pop(stack)

\* C24: the collection strategy is invoked exactly once by a step that
\* completes the top-level sequence, the body of a conditional branch or a
\* loop (by break or by its condition not being true), and by no other step:
\* not between the passes of a loop, not when a function body returns.
C24_CollectsOnce ==
    [][panic' = "none" => Len(collected') = IF EndsSequence THEN 1 ELSE 0]_vars

\* a while-loop of the top-level sequence has ended on its test: the step
\* invoked the strategy once
C24_Witness ==
    /\ node.node = "while_test"
    /\ panic = "none"
    /\ stack = <<>>
    /\ Len(collected) = 1

\* C25: under reference counting, right after a collection point no entry of
\* the reference-count table has count zero (such an entry was reclaimed),
\* and no object whose entry dropped to zero is left in the heap.
C25_NoZeroEntry ==
    [][Collects =>
        /\ \A i \in DOMAIN objects_in_use' : objects_in_use'[i][2] # 0
        /\ \A i \in DOMAIN objects_in_use :
                objects_in_use[i][2] = 0 => ~contains_key(objects', objects_in_use[i][1])]_vars

\* C26: at the end of a run the unreclaimed-allocation warning is written
\* if and only if some entry of the reference-count table has a count other
\* than zero; the warning does not end the run with a failure.
C26_WarningIffNonzero ==
    [][node'.node = "run_end" =>
        /\ panic' = "none"
        /\ warned' <=> \E i \in DOMAIN objects_in_use' : objects_in_use'[i][2] # 0]_vars

\* the registry without the callables of the given names
Without(names) == [n \in DOMAIN Registry \ names |-> Registry[n]]

\* the step is a call of a native callable that returned
NativeReturned ==
    /\ is_some(CalledName(node'))
    /\ panic' = "none"
    /\ stack' = Advance(stack, node')

\* C27: a call that returns leaves the registry as it was immediately before
\* the call, and while calls are in progress the registry lacks exactly the
\* callables that are executing.  Stated step by step, for the steps that do
\* not fail: the registry is the initial one without the callables whose body
\* is in execution (so it is the same before a call and after its return);
\* a call of a native callable, which returns within the step, leaves the
\* registry unchanged; and the return of a defined function puts that
\* function, and nothing else, back into the registry.
C27_RegistryRestored ==
    [][panic' = "none" =>
        /\ functions' = Without(Executing(stack'))
        /\ NativeReturned => functions' = functions
        /\ Returned =>
              functions' = insert(functions, Top.function.name, Registry[Top.function.name])]_vars

\* the call of g inside the body of f has returned while f is still in
\* execution: the registry lacks f and holds g again
C27_Witness ==
    /\ node.node = "body_end"
    /\ panic = "none"
    /\ Executing(stack) = {Str.f}
    /\ DOMAIN functions = DOMAIN Registry \ {Str.f}
    /\ functions[Str.g] = Fn.g

\* the lists of names run, multi_run, loop_run and while_loop have gathered
Gathered(names, stk) ==
    {names} \cup {stk[i].assigned : i \in {j \in DOMAIN stk : stk[j].kind # "call"}}

\* C28: at every collection point (end of the top-level sequence, end of a
\* conditional body, exit of a loop) the list of names handed to the
\* collection strategy is empty, no statement having reported a name; so a
\* collection under reference counting unbinds no variable and changes no
\* count of the reference-count table.
C28_NothingAssigned ==
    [][/\ Gathered(assigned', stack') = {<<>>}
       /\ \A i \in DOMAIN collected' : collected'[i] = <<>>
       /\ Collects =>
             /\ global_variables' = global_variables
             /\ objects_in_use' = objects_in_use]_vars

\* under reference counting a while-loop has ended by the break that follows
\* the assign of its body: the strategy was handed no name, and x is still
\* bound to the address the assign gave it
C28_Witness ==
    /\ node.node = "Break"
    /\ panic = "none"
    /\ stack = <<>>
    /\ gc_approach = "ReferenceCounting"
    /\ collected = << <<>> >>
    /\ contains_key(global_variables, Str.x)
    /\ global_variables[Str.x] = Value_Object(1)

\* no loop statement among the statements, at any depth
RECURSIVE LoopFree(_)
LoopFree(nodes) ==
    \A i \in DOMAIN nodes :
        /\ nodes[i].node \notin {"Loop", "WhileLoop", "For"}
        /\ nodes[i].node = "Conditional" =>
              /\ LoopFree(nodes[i].else_block)
              /\ \A j \in DOMAIN nodes[i].conditions : LoopFree(nodes[i].conditions[j][2])

\* the program about to run and the bodies of the registered functions
\* contain no loop statement
LoopFreeProgram ==
    /\ node.node = "init"
    /\ LoopFree(stack[1].nodes)
    /\ \A c \in Callables : c.kind = "defined" => LoopFree(c.body)

\* the callables in execution are pairwise distinct, hence no more than the
\* registered callables
DistinctCalls ==
    /\ CallDepth(stack) = Cardinality(Executing(stack))
    /\ CallDepth(stack) <= Cardinality(DOMAIN Registry)
    /\ Len(locals) + (IF is_some(local) THEN 1 ELSE 0) <= Cardinality(DOMAIN Registry)

\* run has returned, or the program has failed
Finished == node.node = "run_end" \/ panic # "none"

\* C29: the callables in execution are always pairwise distinct, so the
\* depth of nested calls never exceeds the number of registered callables;
\* and a program without loop statements, in its top-level sequence and in
\* the function bodies, eventually completes or fails.
C29_CallsNestFinitely == []DistinctCalls /\ (LoopFreeProgram => <>Finished)

\* f, called from the top level, is executing g: two distinct callables are
\* in execution
C29_Witness ==
    /\ panic = "none"
    /\ CallDepth(stack) = 2
    /\ Executing(stack) = {Str.f, Str.g}
    /\ LoopFree(stack[1].nodes)

\* C30: no use-count underflows: no decrement is applied to an entry whose
\* count is zero (such a decrement panics in a build with overflow checks and
\* wraps to u32::MAX, held as -1, in one without).
C30_NoUnderflow ==
    /\ panic # "ArithmeticOverflow"
    /\ \A i \in DOMAIN objects_in_use : objects_in_use[i][2] >= 0

\* the objects the step removed from the heap
Reclaimed == DOMAIN objects \ DOMAIN objects'

\* C31: under reference counting the collector leaves no dangling
\* reference: after a collection point no global variable, no variable of a
\* local frame and no field of a resident object holds the address of an
\* object the collection removed from the heap.
C31_NoDangling ==
    [][Collects => \A id \in Reclaimed : Holders(self_next, id) = 0]_vars

====
